---- MODULE Spec2Model ----
(***************************************************************************)
(* Orchestration agents that translate requests into AWS calls: the web    *)
(* UI's natural-language command router and chat dispatchers               *)
(* (src/web-ui/app.py), the ECS agent tools                                *)
(* (src/agentcore-agent-runtime/agent.py), the EKS agent tools             *)
(* (src/agentcore-eks-runtime/agent.py) and the REST Lambda handlers       *)
(* (src/infrastructure/rest-api-server/container-migration/                *)
(* lambda_function.py).                                                    *)
(*                                                                         *)
(* Python values are modelled as follows.  A dict is a record; a missing   *)
(* key is a missing field and d.get(k, default) is Get(d, k, default).     *)
(* None is the string "None".  A text is a sequence of tokens, so that     *)
(* splitting on a code fence and parsing are computed, not assumed.  An    *)
(* exception message is the string the code searches for markers in; the   *)
(* test 'marker in str(e)' is membership in a set of markers.  A report    *)
(* (response_text) is the sequence of lines appended to it.                *)
(***************************************************************************)
EXTENDS Integers, Sequences, FiniteSets, TLC

VARIABLES
    pc,         \* web UI: position of the chat request being served
    handler,    \* web UI: "ecs_chat" or "eks_chat" (or "none" before a request)
    attempt,    \* router: loop index of the retry loop
    oracleLog,  \* router: class of every oracle answer of this routing, in order
    sleeps,     \* router: every delay slept by this routing, in order
    content,    \* router: raw text of the oracle's last answer
    routing,    \* the RoutingDecision returned by the router
    steps,      \* web UI: collaborator calls of the dispatcher and how each ended, in order
    response_text, \* web UI: the report accumulated so far
    response,   \* web UI: the JSON body returned to the caller
    repos,      \* provider: number of ECR repositories of each name
    stacks,     \* provider: CloudFormation stack of each name
    k8s,        \* provider: Kubernetes objects of the cluster
    tmpfiles,   \* EKS agent: temporary CA files left on disk
    ret,        \* agent/Lambda: the last tool call: its arguments, the provider
                \* state it started from, and its result
    calls,      \* agent/Lambda: provider calls issued by the last tool call, in order
    prev,       \* agent/Lambda: the tool call before the last one
    frame,      \* EKS agent: locals of the tool call that is waiting in a loop
    roles,      \* provider: IAM role of each name, with its policies
    operation_logs, \* web UI: the module-level dict operation_logs
    logThreads, \* web UI: position and locals of each request thread in log_message
    logged      \* history: every entry appended for each operation id, in append order

vars == <<pc, handler, attempt, oracleLog, sleeps, content, routing, steps,
          response_text, response, repos, stacks, k8s, tmpfiles, ret, calls, prev,
          frame, roles, operation_logs, logThreads, logged>>

webVars == <<pc, handler, attempt, oracleLog, sleeps, content, routing, steps,
             response_text, response>>
iamLogVars == <<roles, operation_logs, logThreads, logged>>
toolVars == <<repos, stacks, k8s, tmpfiles, ret, calls, prev, frame, iamLogVars>>

(***************************************************************************)
(* Bounds of the model.                                                    *)
(***************************************************************************)
\* longest oracle text, in tokens
MaxLen == 3

(***************************************************************************)
(* Python helpers.                                                         *)
(***************************************************************************)
None == "None"

EmptyDict == [k \in {} |-> None]

\* d.get(k, dflt) on a dict
Get(d, k, dflt) == IF k \in DOMAIN d THEN d[k] ELSE dflt

\* isinstance(v, dict): a parsed JSON value that is not an object is tagged
IsDict(v) == "json_type" \notin DOMAIN v

\* 2 ** n
RECURSIVE Pow2(_)
Pow2(n) == IF n = 0 THEN 1 ELSE 2 * Pow2(n - 1)

\* 'x in seq'
Contains(seq, x) == \E i \in 1..Len(seq) : seq[i] = x

\* index of the first x in seq, 0 when there is none
RECURSIVE IndexFrom(_, _, _)
IndexFrom(seq, S, i) ==
    IF i > Len(seq) THEN 0
    ELSE IF seq[i] \in S THEN i
    ELSE IndexFrom(seq, S, i + 1)

(***************************************************************************)
(* The generative-text oracle (bedrock_runtime.invoke_model).              *)
(***************************************************************************)
\* the fence markers: three backquotes followed by json, and three backquotes
FenceJson == "<fence:json>"
Fence == "<fence>"
Prose == "prose"

\* JSON documents the oracle may write when asked to route an ECS command
EcsJsonTexts == {
    "{operation:deploy,arguments:{app_name:blog,desired_count:3},reasoning:r}",
    "{operation:deploy,arguments:{},reasoning:r}",
    "{operation:deploy,arguments:{app_name:},reasoning:r}",
    "{operation:deploy,arguments:{app_name:blog,desired_count:0},reasoning:r}",
    "{operation:list,arguments:{},reasoning:r}",
    "{operation:status,arguments:{},reasoning:r}",
    "{operation:delete,arguments:{service_name:checkout},reasoning:r}",
    "{operation:scale,arguments:{},reasoning:r}",
    "{arguments:{},reasoning:r}",
    "[1,2]" }

\* JSON documents the oracle may write when asked to route an EKS command
EksJsonTexts == {
    "{tool_name:deploy_workflow,arguments:{app_name:blog},reasoning:r,needs_build:true}",
    "{tool_name:list_deployments,arguments:{},reasoning:r}",
    "{tool_name:delete_eks_deployment,arguments:{app_name:blog},reasoning:r}",
    "{tool_name:restart_pods,arguments:{},reasoning:r}",
    "{arguments:{},reasoning:r}",
    "[1,2]" }

JsonTexts == EcsJsonTexts \cup EksJsonTexts

Tokens(h) == {FenceJson, Fence, Prose} \cup (IF h = "ecs_chat" THEN EcsJsonTexts ELSE EksJsonTexts)

\* json.loads of a text that is one JSON document
JsonValue(t) ==
    CASE t = "{operation:deploy,arguments:{app_name:blog,desired_count:3},reasoning:r}" ->
            [operation |-> "deploy",
             arguments |-> [app_name |-> "blog", desired_count |-> 3],
             reasoning |-> "r"]
      [] t = "{operation:deploy,arguments:{},reasoning:r}" ->
            [operation |-> "deploy", arguments |-> EmptyDict, reasoning |-> "r"]
      [] t = "{operation:deploy,arguments:{app_name:},reasoning:r}" ->
            [operation |-> "deploy", arguments |-> [app_name |-> ""], reasoning |-> "r"]
      [] t = "{operation:deploy,arguments:{app_name:blog,desired_count:0},reasoning:r}" ->
            [operation |-> "deploy",
             arguments |-> [app_name |-> "blog", desired_count |-> 0],
             reasoning |-> "r"]
      [] t = "{operation:list,arguments:{},reasoning:r}" ->
            [operation |-> "list", arguments |-> EmptyDict, reasoning |-> "r"]
      [] t = "{operation:status,arguments:{},reasoning:r}" ->
            [operation |-> "status", arguments |-> EmptyDict, reasoning |-> "r"]
      [] t = "{operation:delete,arguments:{service_name:checkout},reasoning:r}" ->
            [operation |-> "delete",
             arguments |-> [service_name |-> "checkout"],
             reasoning |-> "r"]
      [] t = "{operation:scale,arguments:{},reasoning:r}" ->
            [operation |-> "scale", arguments |-> EmptyDict, reasoning |-> "r"]
      [] t = "{arguments:{},reasoning:r}" ->
            [arguments |-> EmptyDict, reasoning |-> "r"]
      [] t = "{tool_name:deploy_workflow,arguments:{app_name:blog},reasoning:r,needs_build:true}" ->
            [tool_name |-> "deploy_workflow",
             arguments |-> [app_name |-> "blog"],
             reasoning |-> "r", needs_build |-> TRUE]
      [] t = "{tool_name:list_deployments,arguments:{},reasoning:r}" ->
            [tool_name |-> "list_deployments", arguments |-> EmptyDict, reasoning |-> "r"]
      [] t = "{tool_name:delete_eks_deployment,arguments:{app_name:blog},reasoning:r}" ->
            [tool_name |-> "delete_eks_deployment",
             arguments |-> [app_name |-> "blog"], reasoning |-> "r"]
      [] t = "{tool_name:restart_pods,arguments:{},reasoning:r}" ->
            [tool_name |-> "restart_pods", arguments |-> EmptyDict, reasoning |-> "r"]
      [] t = "[1,2]" -> [json_type |-> "array"]

\* the texts of at most MaxLen tokens
Texts(h) == UNION {[1..n -> Tokens(h)] : n \in 0..MaxLen}

\* messages of the exceptions invoke_model raises
ThrottlingErrors == {"ThrottlingException", "ServiceUnavailableException", "Too many connections"}
OtherErrors == {"AccessDeniedException", "ReadTimeoutError"}

\* what one invoke_model call can yield
OracleResponses(h) ==
    [kind : {"raise"}, error : ThrottlingErrors \cup OtherErrors]
    \cup [kind : {"text"}, text : Texts(h)]
    \cup {[kind |-> "no_content"]}

\* the class of an oracle answer, whatever the router makes of it
ResponseClass(r) ==
    IF r.kind = "raise"
    THEN (IF r.error \in ThrottlingErrors THEN "throttling" ELSE "failure")
    ELSE r.kind

(***************************************************************************)
(* Command router: llm_route_ecs_command and llm_route_eks_command.        *)
(***************************************************************************)
max_retries == 5
base_delay == 3

\* content.split(marker)[1].split(fence)[0]: the tokens after the first
\* marker, up to the next fence of either kind
AfterMarker(text, marker) ==
    LET i == IndexFrom(text, {marker}, 1)
        j == IndexFrom(text, {Fence, FenceJson}, i + 1)
    IN  SubSeq(text, i + 1, IF j = 0 THEN Len(text) ELSE j - 1)

\* a fence strip that knows the json-tagged marker only
StripFenceJsonOnly(text) ==
    IF Contains(text, FenceJson) THEN AfterMarker(text, FenceJson) ELSE text

\* "Extract JSON from response": strip an optional code fence
StripFence(text) ==
    IF Contains(text, FenceJson) THEN AfterMarker(text, FenceJson)
    ELSE IF Contains(text, Fence) THEN AfterMarker(text, Fence)
    ELSE text

\* json.loads(content): [ok, value] or [ok, error]
JsonLoads(text) ==
    IF Len(text) = 1 /\ text[1] \in JsonTexts
    THEN [ok |-> TRUE, value |-> JsonValue(text[1])]
    ELSE IF Len(text) >= 1 /\ text[1] \in JsonTexts
    THEN [ok |-> FALSE, error |-> "Extra data"]
    ELSE [ok |-> FALSE, error |-> "Expecting value"]

\* the try block of one attempt: [ok, value] or [ok, error] with str(e)
TryRoute(r) ==
    CASE r.kind = "raise" -> [ok |-> FALSE, error |-> r.error]
      [] r.kind = "no_content" -> [ok |-> FALSE, error |-> "'content'"]
      [] r.kind = "text" -> JsonLoads(StripFence(r.text))

\* "Check if it's a throttling error"
IsThrottlingMissingMarker(error_str) ==
    error_str \in {"ServiceUnavailableException", "ThrottlingException"}

\* a test that takes every failure for a throttling error
IsThrottlingAlways(error_str) == error_str = error_str

IsThrottling(error_str) ==
    error_str \in {"ServiceUnavailableException", "Too many connections", "ThrottlingException"}

\* a backoff that grows linearly
DelayLinear(n) == base_delay * (n + 1)

\* delay = base_delay * (2 ** attempt)
Delay(n) == base_delay * Pow2(n)

\* the decision returned from the except block of each router
EcsErrorDecision(error_str) ==
    [operation |-> "error",
     arguments |-> EmptyDict,
     reasoning |-> "Failed to route command after 5 attempts: " \o error_str]

EksErrorDecision(error_str) ==
    [tool_name |-> "error",
     arguments |-> EmptyDict,
     reasoning |-> "Failed to route command after 5 attempts: " \o error_str,
     needs_build |-> FALSE]

ErrorDecision(h, error_str) ==
    IF h = "ecs_chat" THEN EcsErrorDecision(error_str) ELSE EksErrorDecision(error_str)

NoDecision == [none |-> TRUE]
NoResponse == [none |-> TRUE]

\* the key of the decision that names what to do
OpKey(h) == IF h = "ecs_chat" THEN "operation" ELSE "tool_name"

(***************************************************************************)
(* Cloud provider answers (CloudFormation), as the web UI reads them.      *)
(***************************************************************************)
\* stack statuses of the provider
StackStatuses == {"CREATE_IN_PROGRESS", "CREATE_FAILED", "CREATE_COMPLETE",
                  "ROLLBACK_IN_PROGRESS", "ROLLBACK_COMPLETE", "DELETE_IN_PROGRESS",
                  "UPDATE_IN_PROGRESS", "UPDATE_COMPLETE", "UPDATE_ROLLBACK_COMPLETE"}

\* 'FAILED' in status, 'ROLLBACK' in status
HasFailed(status) == status \in {"CREATE_FAILED", "DELETE_FAILED", "UPDATE_FAILED",
                                 "ROLLBACK_FAILED", "UPDATE_ROLLBACK_FAILED"}
HasRollback(status) == status \in {"ROLLBACK_IN_PROGRESS", "ROLLBACK_COMPLETE", "ROLLBACK_FAILED",
                                   "UPDATE_ROLLBACK_IN_PROGRESS", "UPDATE_ROLLBACK_COMPLETE",
                                   "UPDATE_ROLLBACK_FAILED"}

\* the Outputs lists a stack may declare
OutputLists == { <<>>,
                 <<[OutputKey |-> "ServiceArn", OutputValue |-> "arn:svc"],
                   [OutputKey |-> "Endpoint", OutputValue |-> "svc.example.com"]>> }

\* the stack descriptors describe_stacks may return
StackDescriptors == [StackStatus : StackStatuses, Outputs : OutputLists]

\* resource statuses of stack events
EventStatuses == {"CREATE_IN_PROGRESS", "CREATE_FAILED", "CREATE_COMPLETE"}

\* most events a stack has in the model
MaxEvents == 2

EventLists == UNION {[1..n -> [ResourceStatus : EventStatuses]] : n \in 0..MaxEvents}

\* messages of the ClientError a CloudFormation call raises
StackMissing == "Stack does not exist"
CfnClientErrors == {StackMissing, "Rate exceeded"}
\* an exception that is not a ClientError
CfnOtherErrors == {"EndpointConnectionError"}

DescribeAnswers ==
    [ok : {TRUE}, stack : StackDescriptors]
    \cup [ok : {FALSE}, error : CfnClientErrors \cup CfnOtherErrors]

EventAnswers ==
    [ok : {TRUE}, events : EventLists]
    \cup [ok : {FALSE}, error : CfnClientErrors \cup CfnOtherErrors]

(***************************************************************************)
(* Status reconciler of the web UI: check_stack_status.                    *)
(***************************************************************************)
\* events_response['StackEvents'][:20]
EventLimit == 20

FirstEvents(events) == SubSeq(events, 1, IF Len(events) < EventLimit THEN Len(events) ELSE EventLimit)

\* the events whose ResourceStatus contains FAILED, in order
FailedEvents(events) == SelectSeq(events, LAMBDA e : HasFailed(e.ResourceStatus))

\* outputs[output['OutputKey']] = output['OutputValue'] for each declared output
OutputsDict(outs) ==
    [k \in {outs[i].OutputKey : i \in 1..Len(outs)} |->
        LET last == CHOOSE i \in 1..Len(outs) :
                        /\ outs[i].OutputKey = k
                        /\ \A j \in (i + 1)..Len(outs) : outs[j].OutputKey # k
        IN  outs[last].OutputValue]

\* "if status == 'CREATE_COMPLETE' or status == 'UPDATE_COMPLETE'"
IsCompleteCreateOnly(status) == status = "CREATE_COMPLETE"

IsComplete(status) == status = "CREATE_COMPLETE" \/ status = "UPDATE_COMPLETE"

\* the except clause: a ClientError is translated, anything else propagates
StackError(stack_name, error) ==
    IF error \in CfnClientErrors
    THEN [raised |-> FALSE,
          value |-> IF error = StackMissing
                    THEN [status |-> "NOT_FOUND", stack_name |-> stack_name]
                    ELSE [status |-> "ERROR", message |-> error]]
    ELSE [raised |-> TRUE, error |-> error]

\* check_stack_status(stack_name, region), given what describe_stacks and
\* describe_stack_events answer; providerCalls counts the calls it made
check_stack_status(stack_name, d, e) ==
    IF ~d.ok THEN StackError(stack_name, d.error) @@ [providerCalls |-> 1]
    ELSE LET status == d.stack.StackStatus
             base == [status |-> status, reason |-> "", stack_name |-> stack_name]
         IN  IF ~IsComplete(status)
             THEN IF ~e.ok THEN StackError(stack_name, e.error) @@ [providerCalls |-> 2]
                  ELSE [raised |-> FALSE, providerCalls |-> 2,
                        value |-> base @@ [failed_events |-> FailedEvents(FirstEvents(e.events)),
                                           recent_events |-> FirstEvents(e.events)]]
             ELSE [raised |-> FALSE, providerCalls |-> 1,
                   value |-> base @@ [outputs |-> OutputsDict(d.stack.Outputs)]]

(***************************************************************************)
(* Web UI collaborators: build_and_push_docker_image, invoke_strands_agent *)
(* and invoke_mcp_tool, given what the commands and services they call     *)
(* answer.                                                                 *)
(***************************************************************************)
\* what the commands run by build_and_push_docker_image can yield
BuildInputs(ecrAnswers) ==
    [ecr : ecrAnswers, login : BOOLEAN, docker_login : BOOLEAN, buildx : BOOLEAN,
     build : BOOLEAN, tag : BOOLEAN, push : BOOLEAN]

BuildError(message, issued) == [status |-> "error", message |-> message, calls |-> issued]

BuildSuccess(issued) ==
    [status |-> "success", image_uri |-> "image_uri", app_path |-> "app_path",
     message |-> "Successfully built and pushed", calls |-> issued]

\* build_and_push_docker_image(app_name, region)
build_and_push_docker_image(b) ==
    LET c1 == <<"ecr.create_repository">>
        c2 == Append(c1, "aws ecr get-login-password")
        c3 == Append(c2, "docker login")
        c4 == Append(c3, "docker buildx build --push")
        c5 == Append(c4, "docker build")
        c6 == Append(c5, "docker tag")
        c7 == Append(c6, "docker push")
    IN  IF b.ecr = "raise" THEN BuildError("AccessDeniedException", c1)
        ELSE IF ~b.login THEN BuildError("ECR login failed", c2)
        ELSE IF ~b.docker_login THEN BuildError("Docker login failed", c3)
        ELSE IF b.buildx THEN BuildSuccess(c4)
        ELSE IF ~b.build THEN BuildError("Docker build failed", c5)
        ELSE IF ~b.tag THEN BuildError("CalledProcessError", c6)
        ELSE IF ~b.push THEN BuildError("Docker push failed", c7)
        ELSE BuildSuccess(c7)

\* "if build_result['status'] != 'success'" in both chat handlers
BuildStepFailedUnchecked(build_result) == FALSE

BuildStepFailed(build_result) == build_result.status # "success"

\* what the POST to the ECS agent can yield: a 200 with a reply, a 200 without
\* content or another status code, or an exception of the HTTP client
AgentAnswers == {"reply", "no_content", "http_error", "raise"}

\* invoke_strands_agent(agent_arn, prompt): the text returned
invoke_strands_agent(answer) ==
    IF answer = "reply" THEN "agent reply" ELSE "Error: response text"

(***************************************************************************)
(* Web UI: /api/ecs/chat (ecs_chat).                                       *)
(***************************************************************************)
\* the except clause of a chat handler
Caught(error) == [status |-> "error", message |-> error]

\* an error result that carries the status of a success
ErrorResultAsSuccess(text) == [status |-> "success", result |-> text]

ErrorResult(text) == [status |-> "error", result |-> text]
SuccessResult(text) == [status |-> "success", result |-> text]

\* service_name = f"{app_name}-{int(time.time())}"
ServiceName(app_name) == app_name \o "-1700000000"

\* stack_name = f"ecs-express-{service_name}"
StackName(service_name) == "ecs-express-" \o service_name

\* one collaborator call of a chat handler and how it ended
Step(call, outcome) == [call |-> call, outcome |-> outcome]

\* a request arrives: the handler calls its router
ChatBegin(h) ==
    /\ pc = "idle"
    /\ handler' = h
    /\ pc' = "route"
    /\ UNCHANGED <<attempt, oracleLog, sleeps, content, routing, steps, response_text, response>>
    /\ UNCHANGED toolVars

\* one iteration of the router's retry loop
RouteAttempt ==
    /\ pc = "route"
    /\ attempt < max_retries
    /\ \E r \in OracleResponses(handler) :
        LET t == TryRoute(r) IN
        /\ oracleLog' = Append(oracleLog, ResponseClass(r))
        /\ content' = IF r.kind = "text" THEN r.text ELSE <<>>
        /\ IF t.ok
           THEN /\ routing' = t.value
                /\ pc' = "routed"
                /\ UNCHANGED <<attempt, sleeps>>
           ELSE IF IsThrottling(t.error) /\ attempt < max_retries - 1
           THEN /\ sleeps' = Append(sleeps, Delay(attempt))
                /\ attempt' = attempt + 1
                /\ UNCHANGED <<routing, pc>>
           ELSE /\ routing' = ErrorDecision(handler, t.error)
                /\ pc' = "routed"
                /\ UNCHANGED <<attempt, sleeps>>
    /\ UNCHANGED <<handler, steps, response_text, response>>
    /\ UNCHANGED toolVars

\* the handler returns `body`
Return(body) ==
    /\ response' = body
    /\ pc' = "done"

\* the router has returned: its locals and the record of its calls are gone
RouterFrameDropped ==
    /\ attempt' = 0
    /\ oracleLog' = <<>>
    /\ sleeps' = <<>>
    /\ content' = <<>>

\* the lines every report starts with
ReportHead(reasoning) == <<"Understanding your request...", reasoning>>

\* ecs_chat after routing: validation and the branches that make no call
EcsDispatch ==
    /\ pc = "routed" /\ handler = "ecs_chat"
    /\ LET operation == Get(routing, "operation", None)
           arguments == Get(routing, "arguments", EmptyDict)
           reasoning == Get(routing, "reasoning", "")
           app_name == Get(arguments, "app_name", None)
       IN  IF ~IsDict(routing)
           THEN Return(Caught("AttributeError")) /\ UNCHANGED response_text
           ELSE IF operation \in {None, ""}
           THEN Return(ErrorResult(<<"LLM failed to determine operation">>))
                /\ UNCHANGED response_text
           ELSE IF operation = "deploy"
           THEN IF app_name = None
                THEN Return(Caught("AttributeError")) /\ UNCHANGED response_text
                ELSE IF app_name = ""
                THEN Return(ErrorResult(<<"Could not determine app name">>))
                     /\ UNCHANGED response_text
                ELSE /\ response_text' = ReportHead(reasoning) \o <<"ECS Deployment Workflow">>
                     /\ pc' = "ecs_registry"
                     /\ UNCHANGED response
           ELSE IF operation \in {"list", "delete", "status"}
           THEN /\ response_text' = ReportHead(reasoning)
                /\ pc' = "ecs_" \o operation
                /\ UNCHANGED response
           ELSE IF operation = "error"
           THEN Return(ErrorResult(<<reasoning>>)) /\ UNCHANGED response_text
           ELSE Return(ErrorResult(<<"Unknown operation">>)) /\ UNCHANGED response_text
    /\ RouterFrameDropped
    /\ UNCHANGED <<handler, routing, steps>>
    /\ UNCHANGED toolVars

\* Step 1: Create ECR Repository
EcsEnsureRegistry ==
    /\ pc = "ecs_registry"
    /\ \E answer \in {"created", "exists", "raise"} :
        /\ steps' = Append(steps, Step("ecr.create_repository", answer))
        /\ CASE answer = "created" ->
                   /\ response_text' = response_text \o
                          <<"Step 1: Create ECR Repository", "Created ECR repository">>
                   /\ pc' = "ecs_build"
                   /\ UNCHANGED response
             [] answer = "exists" ->
                   /\ response_text' = response_text \o
                          <<"Step 1: Create ECR Repository", "ECR repository already exists">>
                   /\ pc' = "ecs_build"
                   /\ UNCHANGED response
             [] answer = "raise" ->
                   Return(Caught("AccessDeniedException")) /\ UNCHANGED response_text
    /\ UNCHANGED <<handler, attempt, oracleLog, sleeps, content, routing>>
    /\ UNCHANGED toolVars

\* Step 2: Build and push image
EcsBuildPush ==
    /\ pc = "ecs_build"
    /\ \E b \in BuildInputs({"exists", "raise"}) :
        LET build_result == build_and_push_docker_image(b) IN
        /\ steps' = Append(steps, Step("build_and_push_docker_image", build_result.status)
                                   @@ [inner |-> build_result.calls])
        /\ IF BuildStepFailed(build_result)
           THEN /\ response_text' = response_text \o
                        <<"Step 2: Build and Push Docker Image",
                          "Build failed: " \o build_result.message>>
                /\ Return(ErrorResult(response_text'))
           ELSE /\ response_text' = response_text \o
                        <<"Step 2: Build and Push Docker Image", "Image built and pushed">>
                /\ pc' = "ecs_submit"
                /\ UNCHANGED response
    /\ UNCHANGED <<handler, attempt, oracleLog, sleeps, content, routing>>
    /\ UNCHANGED toolVars

\* Step 3: Deploy to ECS (the deploy prompt sent to the ECS agent)
EcsSubmitDeploy ==
    /\ pc = "ecs_submit"
    /\ \E answer \in AgentAnswers :
        /\ steps' = Append(steps, Step("invoke_strands_agent(deploy)", answer)
                                   @@ [desired_count |->
                                          Get(routing.arguments, "desired_count", 1)])
        /\ IF answer = "raise"
           THEN Return(Caught("ConnectionError")) /\ UNCHANGED response_text
           ELSE /\ response_text' = response_text \o
                       <<"Step 3: Deploy to ECS Express Mode", "Deployment Initiated!",
                         "Agent response: " \o invoke_strands_agent(answer)>>
                /\ pc' = "ecs_poll"
                /\ UNCHANGED response
    /\ UNCHANGED <<handler, attempt, oracleLog, sleeps, content, routing>>
    /\ UNCHANGED toolVars

\* the report of the status read after the deploy was submitted
StatusReport(stack_name, stack_status) ==
    IF stack_status.status = "CREATE_IN_PROGRESS"
    THEN <<"Stack is being created: " \o stack_name, "Monitor progress or check back">>
    ELSE IF HasFailed(stack_status.status) \/ HasRollback(stack_status.status)
    THEN <<"Stack creation failed: " \o stack_status.status>>
         \o (IF Get(stack_status, "failed_events", <<>>) # <<>>
             THEN <<"Failed Resources:">> ELSE <<>>)
         \o (IF Get(stack_status, "recent_events", <<>>) # <<>>
             THEN <<"Recent Events:">> ELSE <<>>)
    ELSE IF stack_status.status = "CREATE_COMPLETE"
    THEN <<"Stack created successfully!">>
         \o (IF Get(stack_status, "outputs", EmptyDict) # EmptyDict
             THEN <<"Endpoints:">> ELSE <<>>)
    ELSE <<>>

\* "Check stack status": one fixed delay, one status read, then return
EcsPollStatus ==
    /\ pc = "ecs_poll"
    /\ \E d \in DescribeAnswers, e \in EventAnswers :
        LET app_name == routing.arguments.app_name
            stack_name == StackName(ServiceName(app_name))
            got == check_stack_status(stack_name, d, e)
        IN  /\ steps' = steps \o <<Step("time.sleep(5)", "slept"),
                                   Step("check_stack_status",
                                        IF got.raised THEN "raise" ELSE got.value.status)>>
            /\ IF got.raised
               THEN Return(Caught(got.error)) /\ UNCHANGED response_text
               ELSE /\ response_text' = response_text
                        \o <<"Checking deployment status...">>
                        \o StatusReport(stack_name, got.value)
                    /\ Return(SuccessResult(response_text'))
    /\ UNCHANGED <<handler, attempt, oracleLog, sleeps, content, routing>>
    /\ UNCHANGED toolVars

\* Handle list operation
EcsChatList ==
    /\ pc = "ecs_list"
    /\ \E answer \in AgentAnswers :
        /\ steps' = Append(steps, Step("invoke_strands_agent(list)", answer))
        /\ IF answer = "raise"
           THEN Return(Caught("ConnectionError")) /\ UNCHANGED response_text
           ELSE /\ response_text' = response_text
                       \o <<"ECS Services", invoke_strands_agent(answer)>>
                /\ Return(SuccessResult(response_text'))
    /\ UNCHANGED <<handler, attempt, oracleLog, sleeps, content, routing>>
    /\ UNCHANGED toolVars

\* Handle delete operation
EcsChatDelete ==
    /\ pc = "ecs_delete"
    /\ IF Get(routing.arguments, "service_name", None) \in {None, ""}
       THEN /\ Return(ErrorResult(<<"Could not determine service name">>))
            /\ UNCHANGED <<response_text, steps>>
       ELSE /\ \E answer \in AgentAnswers :
                /\ steps' = Append(steps, Step("invoke_strands_agent(delete)", answer))
                /\ IF answer = "raise"
                   THEN Return(Caught("ConnectionError")) /\ UNCHANGED response_text
                   ELSE /\ response_text' = response_text
                               \o <<"Deleting Service", invoke_strands_agent(answer)>>
                        /\ Return(SuccessResult(response_text'))
    /\ UNCHANGED <<handler, attempt, oracleLog, sleeps, content, routing>>
    /\ UNCHANGED toolVars

\* Handle status operation
EcsChatStatus ==
    /\ pc = "ecs_status"
    /\ \E answer \in {"stacks", "no_stacks", "raise"} :
        /\ steps' = Append(steps, Step("cfn.list_stacks", answer))
        /\ IF answer = "raise"
           THEN Return(Caught("Rate exceeded")) /\ UNCHANGED response_text
           ELSE /\ response_text' = response_text
                       \o <<"CloudFormation Stacks",
                            IF answer = "stacks" THEN "Total ECS stacks: 1"
                            ELSE "No ECS stacks found.">>
                /\ Return(SuccessResult(response_text'))
    /\ UNCHANGED <<handler, attempt, oracleLog, sleeps, content, routing>>
    /\ UNCHANGED toolVars

(***************************************************************************)
(* Web UI: /api/eks/chat (eks_chat).                                       *)
(***************************************************************************)
\* what invoke_mcp_tool can yield: the tool's own result dict, a tool text that
\* is not JSON, a JSON-RPC message without a tool result, a tool text that is
\* JSON but no object, no data line, a status code other than 200, or an
\* exception of the HTTP client
McpAnswers(toolStatuses) ==
    [kind : {"tool"}, status : toolStatuses]
    \cup [kind : {"text", "rpc", "nondict", "no_data", "http", "raise"}]

\* invoke_mcp_tool(agent_arn, tool_name, arguments): the value returned
invoke_mcp_tool(a) ==
    CASE a.kind = "tool" -> [status |-> a.status, message |-> "tool message",
                             role_arn |-> "arn:role", endpoint |-> "http://lb"]
      [] a.kind = "text" -> [status |-> "success", message |-> "tool text"]
      [] a.kind = "rpc" -> [jsonrpc |-> "2.0", error |-> "rpc error"]
      [] a.kind = "nondict" -> [json_type |-> "array"]
      [] a.kind = "no_data" -> [status |-> "error", message |-> "No valid MCP response found"]
      [] a.kind = "http" -> [status |-> "error", message |-> "HTTP 500"]

\* how a call of invoke_mcp_tool ended: the status of the dict it returned
McpOutcome(a) ==
    IF a.kind = "raise" THEN "raise"
    ELSE IF ~IsDict(invoke_mcp_tool(a)) THEN "nondict"
    ELSE Get(invoke_mcp_tool(a), "status", "no_status")

\* eks_chat after routing: validation and the branches that make no call
EksDispatch ==
    /\ pc = "routed" /\ handler = "eks_chat"
    /\ LET tool_name == Get(routing, "tool_name", None)
           arguments == Get(routing, "arguments", EmptyDict)
           reasoning == Get(routing, "reasoning", "")
           app_name == Get(arguments, "app_name", None)
       IN  IF ~IsDict(routing)
           THEN Return(Caught("AttributeError")) /\ UNCHANGED response_text
           ELSE IF tool_name \in {None, ""}
           THEN Return(ErrorResult(<<"LLM failed to determine tool">>))
                /\ UNCHANGED response_text
           ELSE IF tool_name = "deploy_workflow"
           THEN IF app_name = None
                THEN Return(Caught("AttributeError")) /\ UNCHANGED response_text
                ELSE IF app_name = ""
                THEN Return(ErrorResult(<<"Could not determine app name">>))
                     /\ UNCHANGED response_text
                ELSE /\ response_text' = ReportHead(reasoning) \o <<"EKS Deployment Workflow">>
                     /\ pc' = "eks_oidc"
                     /\ UNCHANGED response
           ELSE IF tool_name = "list_deployments"
           THEN /\ response_text' = ReportHead(reasoning)
                /\ pc' = "eks_list"
                /\ UNCHANGED response
           ELSE IF tool_name \in {"get_deployment_status", "delete_eks_deployment",
                                  "setup_oidc_provider", "create_irsa_role"}
           THEN /\ response_text' = ReportHead(reasoning)
                /\ pc' = "eks_tool"
                /\ UNCHANGED response
           ELSE IF tool_name = "error"
           THEN Return(ErrorResult(<<reasoning>>)) /\ UNCHANGED response_text
           ELSE Return(ErrorResult(<<"Unknown tool">>)) /\ UNCHANGED response_text
    /\ RouterFrameDropped
    /\ UNCHANGED <<handler, routing, steps>>
    /\ UNCHANGED toolVars

\* Step 1: Setup OIDC
EksSetupOidc ==
    /\ pc = "eks_oidc"
    /\ \E a \in McpAnswers({"exists", "created", "error"}) :
        /\ steps' = Append(steps, Step("invoke_mcp_tool(setup_oidc_provider)", McpOutcome(a)))
        /\ IF a.kind = "raise"
           THEN Return(Caught("ConnectionError")) /\ UNCHANGED response_text
           ELSE LET oidc_result == invoke_mcp_tool(a) IN
                /\ response_text' = response_text \o <<"Step 1: Setup OIDC Provider">> \o
                       (IF ~IsDict(oidc_result) THEN <<>>
                        ELSE IF Get(oidc_result, "status", None) \in {"exists", "created"}
                        THEN <<"OIDC Provider: " \o oidc_result.status>>
                        ELSE <<"OIDC warning: " \o Get(oidc_result, "message", "Unknown status")>>)
                /\ pc' = "eks_irsa"
                /\ UNCHANGED response
    /\ UNCHANGED <<handler, attempt, oracleLog, sleeps, content, routing>>
    /\ UNCHANGED toolVars

\* Step 2: Create IRSA role
EksCreateIrsa ==
    /\ pc = "eks_irsa"
    /\ \E a \in McpAnswers({"created", "updated", "error"}) :
        /\ steps' = Append(steps, Step("invoke_mcp_tool(create_irsa_role)", McpOutcome(a)))
        /\ IF a.kind = "raise"
           THEN Return(Caught("ConnectionError")) /\ UNCHANGED response_text
           ELSE LET irsa_result == invoke_mcp_tool(a) IN
                IF ~IsDict(irsa_result)
                THEN /\ response_text' = response_text \o <<"Step 2: Create IRSA Role">>
                     /\ pc' = "eks_build"
                     /\ UNCHANGED response
                ELSE IF Get(irsa_result, "status", None) \in {"created", "updated"}
                THEN /\ response_text' = response_text
                           \o <<"Step 2: Create IRSA Role", "IRSA Role: arn">>
                     /\ pc' = "eks_build"
                     /\ UNCHANGED response
                ELSE /\ response_text' = response_text
                           \o <<"Step 2: Create IRSA Role",
                                "IRSA warning: " \o Get(irsa_result, "message", "Unknown status")>>
                     /\ Return(ErrorResult(response_text'))
    /\ UNCHANGED <<handler, attempt, oracleLog, sleeps, content, routing>>
    /\ UNCHANGED toolVars

\* Step 3: Build and push image
EksBuildPush ==
    /\ pc = "eks_build"
    /\ \E b \in BuildInputs({"created", "exists", "raise"}) :
        LET build_result == build_and_push_docker_image(b) IN
        /\ steps' = Append(steps, Step("build_and_push_docker_image", build_result.status)
                                   @@ [inner |-> build_result.calls])
        /\ IF BuildStepFailed(build_result)
           THEN /\ response_text' = response_text \o
                        <<"Step 3: Build and Push Docker Image",
                          "Build failed: " \o build_result.message>>
                /\ Return(ErrorResult(response_text'))
           ELSE /\ response_text' = response_text \o
                        <<"Step 3: Build and Push Docker Image", "Image built and pushed">>
                /\ pc' = "eks_deploy"
                /\ UNCHANGED response
    /\ UNCHANGED <<handler, attempt, oracleLog, sleeps, content, routing>>
    /\ UNCHANGED toolVars

\* Step 4: Deploy to EKS
EksSubmitDeploy ==
    /\ pc = "eks_deploy"
    /\ \E a \in McpAnswers({"success", "error"}) :
        /\ steps' = Append(steps, Step("invoke_mcp_tool(deploy_to_eks_with_irsa)", McpOutcome(a)))
        /\ IF a.kind = "raise"
           THEN Return(Caught("ConnectionError")) /\ UNCHANGED response_text
           ELSE LET deploy_result == invoke_mcp_tool(a) IN
                IF ~IsDict(deploy_result)
                THEN /\ response_text' = response_text
                           \o <<"Step 4: Deploy to EKS", "Unexpected response type">>
                     /\ Return(ErrorResult(response_text'))
                ELSE IF Get(deploy_result, "status", None) = "success"
                THEN /\ response_text' = response_text
                           \o <<"Step 4: Deploy to EKS", "Deployment Complete!">>
                     /\ Return(SuccessResult(response_text'))
                ELSE /\ response_text' = response_text
                           \o <<"Step 4: Deploy to EKS", "Deployment failed">>
                     /\ Return(ErrorResult(response_text'))
    /\ UNCHANGED <<handler, attempt, oracleLog, sleeps, content, routing>>
    /\ UNCHANGED toolVars

\* list_deployments
EksChatList ==
    /\ pc = "eks_list"
    /\ \E a \in McpAnswers({"success", "error"}) :
        /\ steps' = Append(steps, Step("invoke_mcp_tool(list_deployments)", McpOutcome(a)))
        /\ IF a.kind = "raise"
           THEN Return(Caught("ConnectionError")) /\ UNCHANGED response_text
           ELSE LET result == invoke_mcp_tool(a) IN
                IF ~IsDict(result)
                THEN Return(ErrorResult(<<"Unexpected response">>)) /\ UNCHANGED response_text
                ELSE IF Get(result, "status", None) = "success"
                THEN /\ response_text' = response_text \o <<"Deployments in cluster">>
                     /\ Return(SuccessResult(response_text'))
                ELSE /\ Return(ErrorResult(<<Get(result, "message", "Failed to list deployments")>>))
                     /\ UNCHANGED response_text
    /\ UNCHANGED <<handler, attempt, oracleLog, sleeps, content, routing>>
    /\ UNCHANGED toolVars

\* get_deployment_status, delete_eks_deployment, setup_oidc_provider, create_irsa_role
EksChatTool ==
    /\ pc = "eks_tool"
    /\ \E a \in McpAnswers({"success", "not_found", "error"}) :
        /\ steps' = Append(steps, Step("invoke_mcp_tool(" \o routing.tool_name \o ")",
                                       McpOutcome(a)))
        /\ IF a.kind = "raise"
           THEN Return(Caught("ConnectionError")) /\ UNCHANGED response_text
           ELSE LET result == invoke_mcp_tool(a) IN
                IF ~IsDict(result)
                THEN Return(ErrorResult(<<"Unexpected response">>)) /\ UNCHANGED response_text
                ELSE /\ response_text' = response_text \o <<"Result:", "json.dumps(result)">>
                     /\ Return(SuccessResult(response_text'))
    /\ UNCHANGED <<handler, attempt, oracleLog, sleeps, content, routing>>
    /\ UNCHANGED toolVars

(***************************************************************************)
(* The web UI serving one chat request.                                    *)
(***************************************************************************)
NoTool == [none |-> TRUE]

\* no chat request is being served
WebIdle ==
    /\ pc = "idle"
    /\ handler = "none"
    /\ attempt = 0
    /\ oracleLog = <<>>
    /\ sleeps = <<>>
    /\ content = <<>>
    /\ routing = NoDecision
    /\ steps = <<>>
    /\ response_text = <<>>
    /\ response = NoResponse

\* no tool has been called
NoToolCalled ==
    /\ tmpfiles = 0
    /\ ret = NoTool
    /\ calls = <<>>
    /\ prev = NoTool
    /\ frame = NoTool
    /\ roles = [n \in {} |-> None]
    /\ operation_logs = [id \in {} |-> <<>>]
    /\ logThreads = [t \in {"t1", "t2"} |-> [pc |-> "idle"]]
    /\ logged = [id \in {} |-> <<>>]

Init ==
    /\ WebIdle
    /\ NoToolCalled
    /\ repos = [n \in {} |-> 0]
    /\ stacks = [n \in {} |-> None]
    /\ k8s = {}

Next ==
    \/ ChatBegin("ecs_chat")
    \/ ChatBegin("eks_chat")
    \/ RouteAttempt
    \/ EcsDispatch
    \/ EcsEnsureRegistry
    \/ EcsBuildPush
    \/ EcsSubmitDeploy
    \/ EcsPollStatus
    \/ EcsChatList
    \/ EcsChatDelete
    \/ EcsChatStatus
    \/ EksDispatch
    \/ EksSetupOidc
    \/ EksCreateIrsa
    \/ EksBuildPush
    \/ EksSubmitDeploy
    \/ EksChatList
    \/ EksChatTool

Spec == Init /\ [][Next]_vars

(***************************************************************************)
(* Provider: the container registry (ECR).                                 *)
(***************************************************************************)
RepoNames == {"blog", "secure-blog"}

RepositoryAlreadyExists == "RepositoryAlreadyExistsException"

\* the registry call that fails for a reason of the provider's (throttling,
\* missing permission), if any
EcrFaults == {"none", "create_repository", "describe_repositories"}

\* ecr.create_repository(repositoryName=name)
EcrCreateRepository(rs, name, fault) ==
    IF fault = "create_repository"
    THEN [ok |-> FALSE, error |-> "ThrottlingException", repos |-> rs]
    ELSE IF rs[name] > 0
    THEN [ok |-> FALSE, error |-> RepositoryAlreadyExists, repos |-> rs]
    ELSE [ok |-> TRUE, repos |-> [rs EXCEPT ![name] = @ + 1]]

RepositoryUri(name) == "123456789012.dkr.ecr.amazonaws.com/" \o name

(***************************************************************************)
(* ECS agent tool create_ecr_repository.                                   *)
(***************************************************************************)
ToolValue(value, rs, issued) ==
    [raised |-> FALSE, value |-> value, repos |-> rs, calls |-> issued]

ToolRaised(error, rs, issued) ==
    [raised |-> TRUE, error |-> error, repos |-> rs, calls |-> issued]

\* create_ecr_repository without its except clause
create_ecr_repository_uncaught(rs, app_name, fault) ==
    LET c == EcrCreateRepository(rs, app_name, fault) IN
    IF c.ok
    THEN ToolValue([status |-> "success", repository_uri |-> RepositoryUri(app_name),
                    repository_arn |-> "arn:aws:ecr:repository/" \o app_name],
                   c.repos, <<"ecr.create_repository">>)
    ELSE ToolRaised(c.error, rs, <<"ecr.create_repository">>)

\* create_ecr_repository(app_name, region)
create_ecr_repository(rs, app_name, fault) ==
    LET c == EcrCreateRepository(rs, app_name, fault) IN
    IF c.ok
    THEN ToolValue([status |-> "success", repository_uri |-> RepositoryUri(app_name),
                    repository_arn |-> "arn:aws:ecr:repository/" \o app_name],
                   c.repos, <<"ecr.create_repository">>)
    ELSE IF c.error = RepositoryAlreadyExists
    THEN IF fault = "describe_repositories"
         THEN ToolRaised("ThrottlingException", rs,
                         <<"ecr.create_repository", "ecr.describe_repositories">>)
         ELSE ToolValue([status |-> "exists", repository_uri |-> RepositoryUri(app_name)],
                        rs, <<"ecr.create_repository", "ecr.describe_repositories">>)
    ELSE ToolRaised(c.error, rs, <<"ecr.create_repository">>)

\* the agent calls the tool
CreateEcrRepository ==
    /\ \E app_name \in RepoNames, fault \in EcrFaults :
        LET r == create_ecr_repository(repos, app_name, fault) IN
        /\ repos' = r.repos
        /\ calls' = r.calls
        /\ ret' = [tool |-> "create_ecr_repository", app_name |-> app_name,
                   fault |-> fault, before |-> repos, raised |-> r.raised]
                  @@ (IF r.raised THEN [error |-> r.error] ELSE [value |-> r.value])
    /\ prev' = ret
    /\ UNCHANGED <<stacks, k8s, tmpfiles>>
    /\ UNCHANGED <<webVars, frame, iamLogVars>>

(***************************************************************************)
(* Lambda handler handle_build_and_push_container.                         *)
(***************************************************************************)
\* json.dumps(body): the JSON text, held as the value it encodes
JsonDumps(body) == [json_of |-> body]

create_response(status_code, body) ==
    [statusCode |-> status_code,
     headers |-> [ContentType |-> "application/json", AccessControlAllowOrigin |-> "*"],
     body |-> JsonDumps(body)]

\* request bodies of /tools/build_and_push_container
BuildRequests ==
    {a @@ r : a \in {EmptyDict, [app_name |-> "blog"]},
              r \in {EmptyDict, [region |-> ""], [region |-> "eu-north-1"]}}

LambdaBuildFaults == {"none", "sts", "create_repository", "describe_images"}

LambdaAnswer(resp, rs, issued) == [response |-> resp, repos |-> rs, calls |-> issued]

\* handle_build_and_push_container(request_data); image says whether the
\* tagged image is in the repository
handle_build_and_push_container(rs, request_data, fault, image) ==
    LET app_name == Get(request_data, "app_name", "secure-blog")
        tag == Get(request_data, "tag", "v1.0.0")
        region == Get(request_data, "region", None)
        ecr_uri == RepositoryUri(app_name) \o ":" \o tag
        failed(e) == create_response(500, [error |-> "ECR setup failed: " \o e])
        c == EcrCreateRepository(rs, app_name, fault)
        c1 == <<"sts.get_caller_identity">>
        c2 == Append(c1, "ecr.create_repository")
        c3 == Append(c2, "ecr.describe_images")
    IN  IF region \in {None, ""}
        THEN LambdaAnswer(create_response(400, [error |-> "region is required"]), rs, <<>>)
        ELSE IF fault = "sts"
        THEN LambdaAnswer(failed("AccessDenied"), rs, c1)
        ELSE IF ~c.ok /\ c.error # RepositoryAlreadyExists
        THEN LambdaAnswer(failed(c.error), rs, c2)
        ELSE IF fault = "describe_images"
        THEN LambdaAnswer(failed("RepositoryNotFoundException"), c.repos, c3)
        ELSE IF image = "exists"
        THEN LambdaAnswer(create_response(200,
                 [status |-> "success", image_uri |-> ecr_uri,
                  repository_created |-> c.ok,
                  message |-> "Image already exists in ECR",
                  build_required |-> FALSE]), c.repos, c3)
        ELSE LambdaAnswer(create_response(200,
                 [status |-> "success", image_uri |-> ecr_uri,
                  repository_created |-> c.ok,
                  message |-> "ECR repository ready. Build and push required.",
                  build_required |-> TRUE,
                  build_instructions |-> <<"cd", "docker login", "docker build",
                                           "docker tag", "docker push">>]), c.repos, c3)

\* a POST to /tools/build_and_push_container
LambdaBuildAndPush ==
    /\ \E request_data \in BuildRequests, fault \in LambdaBuildFaults,
          image \in {"exists", "missing"} :
        LET r == handle_build_and_push_container(repos, request_data, fault, image) IN
        /\ repos' = r.repos
        /\ calls' = r.calls
        /\ ret' = [tool |-> "handle_build_and_push_container",
                   request_data |-> request_data, fault |-> fault, before |-> repos,
                   response |-> r.response]
    /\ prev' = ret
    /\ UNCHANGED <<stacks, k8s, tmpfiles>>
    /\ UNCHANGED <<webVars, frame, iamLogVars>>

(***************************************************************************)
(* The registry and the operations that ensure a repository.               *)
(***************************************************************************)
InitRegistry ==
    /\ WebIdle
    /\ NoToolCalled
    /\ repos \in [RepoNames -> {0, 1}]
    /\ stacks = [n \in {} |-> None]
    /\ k8s = {}

NextRegistry ==
    \/ CreateEcrRepository
    \/ LambdaBuildAndPush

SpecRegistry == InitRegistry /\ [][NextRegistry]_vars

(***************************************************************************)
(* Provider: CloudFormation stacks.  stacks maps the name of every stack   *)
(* that exists to its descriptor; a stack that was never created or whose  *)
(* deletion completed has no entry and cannot be described by name.        *)
(***************************************************************************)
StackNames == {"ecs-express-blog", "other-stack"}

\* the states the stacks can be in
StackStates == UNION {[S -> StackDescriptors] : S \in SUBSET StackNames}

\* the CloudFormation call that fails for a reason of the provider's, if any
CfnFaults == {"none", "describe_stacks", "connection", "delete_stack", "create_stack"}

\* cfn.describe_stacks(StackName=name)
CfnDescribeStacks(ss, name, fault) ==
    IF fault = "describe_stacks" THEN [ok |-> FALSE, error |-> "Rate exceeded"]
    ELSE IF fault = "connection" THEN [ok |-> FALSE, error |-> "EndpointConnectionError"]
    ELSE IF name \notin DOMAIN ss THEN [ok |-> FALSE, error |-> StackMissing]
    ELSE [ok |-> TRUE, stack |-> ss[name]]

\* cfn.delete_stack(StackName=name): deleting a stack that does not exist
\* is accepted and does nothing
CfnDeleteStack(ss, name, fault) ==
    IF fault = "delete_stack" THEN [ok |-> FALSE, error |-> "Rate exceeded", stacks |-> ss]
    ELSE IF name \notin DOMAIN ss THEN [ok |-> TRUE, stacks |-> ss]
    ELSE [ok |-> TRUE, stacks |-> [ss EXCEPT ![name].StackStatus = "DELETE_IN_PROGRESS"]]

\* cfn.create_stack(StackName=name, ...)
CfnCreateStack(ss, name, fault) ==
    IF fault = "create_stack" THEN [ok |-> FALSE, error |-> "Rate exceeded", stacks |-> ss]
    ELSE IF name \in DOMAIN ss
    THEN [ok |-> FALSE, error |-> "AlreadyExistsException", stacks |-> ss]
    ELSE [ok |-> TRUE,
          stacks |-> [n \in DOMAIN ss \cup {name} |->
                         IF n = name
                         THEN [StackStatus |-> "CREATE_IN_PROGRESS", Outputs |-> <<>>]
                         ELSE ss[n]]]

(***************************************************************************)
(* ECS agent tools deploy_ecs_express_service and delete_ecs_service.      *)
(***************************************************************************)
StackTool(value, ss, issued) == [value |-> value, stacks |-> ss, calls |-> issued]

\* "if not x" on a string argument
Falsy(x) == x \in {None, ""}

\* service_properties of the template
ServiceProperties(service_name, desired_count) ==
    [ServiceName |-> service_name, Cpu |-> "256", Memory |-> "512"]
    @@ (IF desired_count > 1
        THEN [ScalingTarget |-> [MinTaskCount |-> desired_count, MaxTaskCount |-> 50,
                                 AutoScalingMetric |-> "AVERAGE_CPU",
                                 AutoScalingTargetValue |-> 70]]
        ELSE EmptyDict)

\* deploy_ecs_express_service(service_name, image_uri, ..., desired_count)
deploy_ecs_express_service(ss, service_name, desired_count, fault) ==
    LET stack_name == "ecs-express-" \o service_name
        c == CfnCreateStack(ss, stack_name, fault)
        issued == <<[api |-> "create_stack", StackName |-> stack_name,
                     Properties |-> ServiceProperties(service_name, desired_count)]>>
    IN  IF c.ok
        THEN StackTool([status |-> "success", stack_name |-> stack_name,
                        stack_id |-> "arn:aws:cloudformation:stack/" \o stack_name,
                        desired_count |-> desired_count,
                        message |-> "CloudFormation stack creation initiated"],
                       c.stacks, issued)
        ELSE StackTool([status |-> "error", message |-> c.error], ss, issued)

\* delete_ecs_service that deletes without asking whether the stack exists
delete_ecs_service_unchecked(ss, service_name, stack_name, fault) ==
    LET name == IF Falsy(stack_name) /\ ~Falsy(service_name)
                THEN "ecs-express-" \o service_name ELSE stack_name
        x == CfnDeleteStack(ss, name, fault)
    IN  IF Falsy(name)
        THEN StackTool([status |-> "error",
                        message |-> "Either service_name or stack_name is required"], ss, <<>>)
        ELSE IF ~x.ok
        THEN StackTool([status |-> "error", message |-> "Error deleting service: " \o x.error],
                       ss, <<[api |-> "delete_stack", StackName |-> name]>>)
        ELSE StackTool([status |-> "success", stack_name |-> name,
                        service_name |-> service_name,
                        message |-> "Stack deletion initiated"],
                       x.stacks, <<[api |-> "delete_stack", StackName |-> name]>>)

\* delete_ecs_service(service_name, stack_name, region)
delete_ecs_service(ss, service_name, stack_name, fault) ==
    LET name == IF Falsy(stack_name) /\ ~Falsy(service_name)
                THEN "ecs-express-" \o service_name ELSE stack_name
        d == CfnDescribeStacks(ss, name, fault)
        x == CfnDeleteStack(ss, name, fault)
        c1 == <<[api |-> "describe_stacks", StackName |-> name]>>
        c2 == Append(c1, [api |-> "delete_stack", StackName |-> name])
    IN  IF Falsy(name)
        THEN StackTool([status |-> "error",
                        message |-> "Either service_name or stack_name is required"], ss, <<>>)
        ELSE IF ~d.ok
        THEN IF d.error \in CfnClientErrors /\ d.error = StackMissing
             THEN StackTool([status |-> "not_found", stack_name |-> name,
                             message |-> "Stack does not exist"], ss, c1)
             ELSE StackTool([status |-> "error",
                             message |-> "Error deleting service: " \o d.error], ss, c1)
        ELSE IF ~x.ok
        THEN StackTool([status |-> "error", message |-> "Error deleting service: " \o x.error],
                       ss, c2)
        ELSE StackTool([status |-> "success", stack_name |-> name,
                        service_name |-> service_name,
                        message |-> "Stack deletion initiated"], x.stacks, c2)

\* the agent calls deploy_ecs_express_service
DeployEcsExpressService ==
    /\ \E service_name \in {"blog"}, desired_count \in {1, 3, 51},
          fault \in {"none", "create_stack"} :
        LET r == deploy_ecs_express_service(stacks, service_name, desired_count, fault) IN
        /\ stacks' = r.stacks
        /\ calls' = r.calls
        /\ ret' = [tool |-> "deploy_ecs_express_service", service_name |-> service_name,
                   desired_count |-> desired_count, fault |-> fault, before |-> stacks,
                   value |-> r.value]
    /\ UNCHANGED <<repos, k8s, tmpfiles, prev>>
    /\ UNCHANGED <<webVars, frame, iamLogVars>>

\* the agent calls delete_ecs_service
DeleteEcsService ==
    /\ \E service_name \in {None, "blog", "shop"}, stack_name \in {None, "other-stack"},
          fault \in {"none", "describe_stacks", "connection", "delete_stack"} :
        LET r == delete_ecs_service(stacks, service_name, stack_name, fault) IN
        /\ stacks' = r.stacks
        /\ calls' = r.calls
        /\ ret' = [tool |-> "delete_ecs_service", service_name |-> service_name,
                   stack_name |-> stack_name, fault |-> fault, before |-> stacks,
                   value |-> r.value]
    /\ UNCHANGED <<repos, k8s, tmpfiles, prev>>
    /\ UNCHANGED <<webVars, frame, iamLogVars>>

(***************************************************************************)
(* Web UI: /api/cloudformation/stack-status (get_stack_status).            *)
(***************************************************************************)
\* get_stack_status with the request's stack_name, given what the provider
\* answers to check_stack_status
get_stack_status(stack_name, d, e) ==
    IF Falsy(stack_name)
    THEN [status |-> "error", message |-> "stack_name is required"]
    ELSE LET got == check_stack_status(stack_name, d, e) IN
         IF got.raised THEN [status |-> "error", message |-> got.error]
         ELSE [status |-> "success", result |-> got.value]

\* a POST to /api/cloudformation/stack-status
GetStackStatus ==
    /\ \E stack_name \in {None, "ecs-express-blog", "other-stack", "unknown-stack"},
          fault \in {"none", "describe_stacks", "connection", "describe_stack_events"} :
      \E events \in (IF stack_name \in DOMAIN stacks /\ fault = "none"
                      THEN EventLists ELSE {<<>>}) :
        LET d == CfnDescribeStacks(stacks, stack_name, fault)
            e == IF fault = "describe_stack_events"
                 THEN [ok |-> FALSE, error |-> "Rate exceeded"]
                 ELSE [ok |-> TRUE, events |-> events]
        IN  /\ ret' = [tool |-> "get_stack_status", stack_name |-> stack_name,
                       fault |-> fault, before |-> stacks,
                       response |-> get_stack_status(stack_name, d, e)]
            /\ calls' = IF Falsy(stack_name) THEN <<>>
                        ELSE IF ~d.ok \/ IsComplete(d.stack.StackStatus)
                        THEN <<[api |-> "describe_stacks", StackName |-> stack_name]>>
                        ELSE <<[api |-> "describe_stacks", StackName |-> stack_name],
                               [api |-> "describe_stack_events", StackName |-> stack_name]>>
    /\ UNCHANGED <<repos, stacks, k8s, tmpfiles, prev>>
    /\ UNCHANGED <<webVars, frame, iamLogVars>>

(***************************************************************************)
(* Lambda handler handle_check_ecs_service_status.                         *)
(***************************************************************************)
\* request bodies of /tools/check_ecs_service_status
CheckRequests ==
    { [stack_name |-> "ecs-express-blog", region |-> "us-west-2"],
      [stack_name |-> "unknown-stack", region |-> "us-west-2"],
      [service_arn |-> "arn:aws:ecs:cluster/c/blog", region |-> "us-west-2"],
      [stack_name |-> "ecs-express-blog"],
      [region |-> "us-west-2"] }

\* handle_check_ecs_service_status(request_data), given the stacks, the call
\* that fails for a reason of the provider's and whether describe_services
\* finds the service
handle_check_ecs_service_status(ss, request_data, fault, found) ==
    LET service_arn == Get(request_data, "service_arn", None)
        stack_name == Get(request_data, "stack_name", None)
        region == Get(request_data, "region", None)
        d == CfnDescribeStacks(ss, stack_name, fault)
        c1 == <<[api |-> "describe_stacks", StackName |-> stack_name]>>
        c2 == Append(c1, [api |-> "describe_services"])
        answer(code, body, issued) ==
            [response |-> create_response(code, body), calls |-> issued]
        failed == [error |-> "Status check failed"]
    IN  IF Falsy(stack_name) /\ Falsy(service_arn)
        THEN answer(400, [error |-> "Either service_arn or stack_name is required"], <<>>)
        ELSE IF Falsy(region)
        THEN answer(400, [error |-> "region is required"], <<>>)
        ELSE IF ~Falsy(stack_name)
        THEN IF ~d.ok
             THEN IF d.error = StackMissing
                  THEN answer(404, [error |-> "CloudFormation stack not found"], c1)
                  ELSE answer(500, failed, c1)
             ELSE LET stack_status == d.stack.StackStatus
                      outputs == OutputsDict(d.stack.Outputs)
                      complete == [status |-> "success", deployment_status |-> "complete",
                                   stack_status |-> stack_status,
                                   service_arn |-> Get(outputs, "ServiceArn", None),
                                   load_balancer_url |-> None]
                  IN  IF stack_status = "CREATE_COMPLETE"
                      THEN IF Falsy(Get(outputs, "ServiceArn", None))
                           THEN answer(200, complete, c1)
                           ELSE IF fault # "describe_services" /\ found
                           THEN answer(200, complete @@ [service_status |-> "ACTIVE"], c2)
                           ELSE answer(200, complete, c2)
                      ELSE IF HasFailed(stack_status) \/ HasRollback(stack_status)
                      THEN answer(200, [status |-> "error", deployment_status |-> "failed",
                                        stack_status |-> stack_status], c1)
                      ELSE answer(200, [status |-> "success",
                                        deployment_status |-> "in_progress",
                                        stack_status |-> stack_status], c1)
        ELSE IF fault = "describe_services"
        THEN answer(500, failed, <<[api |-> "describe_services"]>>)
        ELSE IF ~found
        THEN answer(404, [error |-> "Service not found"], <<[api |-> "describe_services"]>>)
        ELSE answer(200, [status |-> "success", service_status |-> "ACTIVE"],
                    <<[api |-> "describe_services"]>>)

\* a POST to /tools/check_ecs_service_status
LambdaCheckStatus ==
    /\ \E request_data \in CheckRequests, found \in BOOLEAN,
          fault \in {"none", "describe_stacks", "describe_services"} :
        LET r == handle_check_ecs_service_status(stacks, request_data, fault, found) IN
        /\ ret' = [tool |-> "handle_check_ecs_service_status",
                   request_data |-> request_data, fault |-> fault, before |-> stacks,
                   response |-> r.response]
        /\ calls' = r.calls
    /\ UNCHANGED <<repos, stacks, k8s, tmpfiles, prev>>
    /\ UNCHANGED <<webVars, frame, iamLogVars>>

(***************************************************************************)
(* ECS agent tool check_service_status.                                    *)
(***************************************************************************)
\* a split that keeps the whole ARN
WholeArn(service_arn) == service_arn

\* service_arn.split('/')[-1]
LastSegment(service_arn) ==
    CASE service_arn = "arn:aws:ecs:us-west-2:acct:service/default/blog" -> "blog"
      [] service_arn = "arn:aws:ecs:us-west-2:acct:service/default/shop" -> "shop"
      [] service_arn = "blog" -> "blog"
      [] OTHER -> ""

\* check_service_status(service_arn, stack_name, region)
check_service_status(ss, service_arn, stack_name, fault) ==
    LET name == IF Falsy(stack_name) /\ ~Falsy(service_arn)
                THEN "ecs-express-" \o LastSegment(service_arn) ELSE stack_name
        d == CfnDescribeStacks(ss, name, fault)
        issued == <<[api |-> "describe_stacks", StackName |-> name]>>
    IN  IF Falsy(name)
        THEN StackTool([status |-> "error",
                        message |-> "Either service_arn or stack_name required"], ss, <<>>)
        ELSE IF ~d.ok
        THEN StackTool([status |-> "error", message |-> d.error], ss, issued)
        ELSE LET outputs == OutputsDict(d.stack.Outputs)
                 result == [status |-> d.stack.StackStatus, stack_name |-> name]
             IN  IF d.stack.StackStatus = "CREATE_COMPLETE"
                 THEN StackTool(result @@ [service_arn |-> Get(outputs, "ServiceArn", "N/A"),
                                           endpoint |-> Get(outputs, "Endpoint", "N/A")],
                                ss, issued)
                 ELSE StackTool(result, ss, issued)

\* the agent calls check_service_status
CheckServiceStatus ==
    /\ \E service_arn \in {None, "arn:aws:ecs:us-west-2:acct:service/default/blog"},
          stack_name \in {None, "other-stack", "unknown-stack"},
          fault \in {"none", "describe_stacks"} :
        LET r == check_service_status(stacks, service_arn, stack_name, fault) IN
        /\ ret' = [tool |-> "check_service_status", service_arn |-> service_arn,
                   stack_name |-> stack_name, fault |-> fault, before |-> stacks,
                   value |-> r.value]
        /\ calls' = r.calls
    /\ UNCHANGED <<repos, stacks, k8s, tmpfiles, prev>>
    /\ UNCHANGED <<webVars, frame, iamLogVars>>

(***************************************************************************)
(* The stacks and the operations on them.                                  *)
(***************************************************************************)
InitStacks ==
    /\ WebIdle
    /\ NoToolCalled
    /\ repos = [n \in {} |-> 0]
    /\ stacks \in StackStates
    /\ k8s = {}

NextStacks ==
    \/ DeployEcsExpressService
    \/ DeleteEcsService
    \/ GetStackStatus
    \/ LambdaCheckStatus
    \/ CheckServiceStatus

SpecStacks == InitStacks /\ [][NextStacks]_vars

(***************************************************************************)
(* Provider: the Kubernetes objects of the cluster, namespace default.     *)
(***************************************************************************)
K8sObject(kind, name) == kind \o "/" \o name

K8sObjects == {K8sObject("Deployment", "blog"), K8sObject("Service", "blog"),
               K8sObject("ServiceAccount", "blog-sa")}

\* the call that fails for a reason of the provider's, if any: describe_cluster
\* of get_k8s_client, or one Kubernetes call answered with a status other
\* than 404
K8sFaults == {"none", "cluster", "Deployment", "Service", "ServiceAccount"}

\* most temporary CA files left on disk in the model
MaxTmpFiles == 2

(***************************************************************************)
(* EKS agent tools get_deployment_status and delete_eks_deployment.        *)
(***************************************************************************)
\* one try block of delete_eks_deployment: delete the object, note a 404,
\* re-raise any other ApiException
DeleteStep(ks, kind, name, fault) ==
    IF fault = kind
    THEN [raised |-> TRUE, k8s |-> ks]
    ELSE IF K8sObject(kind, name) \in ks
    THEN [raised |-> FALSE, entry |-> kind \o ": " \o name,
          k8s |-> ks \ {K8sObject(kind, name)}]
    ELSE [raised |-> FALSE, entry |-> kind \o ": " \o name \o " (not found)", k8s |-> ks]

\* a step that is switched off
StepSkipped(ks) == [raised |-> FALSE, skipped |-> TRUE, k8s |-> ks]

EksTool(value, ks, issued, leaked) ==
    [value |-> value, k8s |-> ks, calls |-> issued, leaked |-> leaked]

\* the entries of the steps that ran
Entries(stepsRun) ==
    LET ran == SelectSeq(stepsRun, LAMBDA d : "entry" \in DOMAIN d)
    IN  [i \in 1..Len(ran) |-> ran[i].entry]

\* len([r for r in results['deleted_resources'] if 'not found' not in r]):
\* the entries of the steps that removed an object
DeletedCount(stepsRun) ==
    Len(SelectSeq(stepsRun, LAMBDA d : "entry" \in DOMAIN d /\ d.k8s # d.from))

\* delete_eks_deployment(cluster_name, app_name, region, delete_service,
\* delete_service_account)
delete_eks_deployment(ks, app_name, delete_service, delete_service_account, fault) ==
    LET d1 == DeleteStep(ks, "Deployment", app_name, fault) @@ [from |-> ks]
        d2 == (IF delete_service THEN DeleteStep(d1.k8s, "Service", app_name, fault)
               ELSE StepSkipped(d1.k8s)) @@ [from |-> d1.k8s]
        d3 == (IF delete_service_account
               THEN DeleteStep(d2.k8s, "ServiceAccount", app_name \o "-sa", fault)
               ELSE StepSkipped(d2.k8s)) @@ [from |-> d2.k8s]
        c0 == <<"eks.describe_cluster">>
        c1 == Append(c0, "delete_namespaced_deployment")
        c2 == IF delete_service THEN Append(c1, "delete_namespaced_service") ELSE c1
        c3 == IF delete_service_account
              THEN Append(c2, "delete_namespaced_service_account") ELSE c2
        api_error == [status |-> "error", message |-> "Kubernetes API error",
                      details |-> "ApiException(500)"]
    IN  IF fault = "cluster"
        THEN EksTool([status |-> "error",
                      message |-> "Error deleting deployment: ResourceNotFoundException"],
                     ks, c0, 0)
        ELSE IF d1.raised THEN EksTool(api_error, d1.k8s, c1, 1)
        ELSE IF d2.raised THEN EksTool(api_error, d2.k8s, c2, 1)
        ELSE IF d3.raised THEN EksTool(api_error, d3.k8s, c3, 1)
        ELSE EksTool([status |-> "success", app_name |-> app_name,
                      deleted_resources |-> Entries(<<d1, d2, d3>>),
                      message |-> <<"Successfully deleted",
                                    DeletedCount(<<d1, d2, d3>>), "resource(s)">>],
                     d3.k8s, c3, 0)

\* get_deployment_status(cluster_name, app_name, region); available is the
\* number of available replicas the Deployment reports
get_deployment_status(ks, app_name, fault, available) ==
    LET c0 == <<"eks.describe_cluster">>
        c1 == Append(c0, "read_namespaced_deployment_status")
    IN  IF fault = "cluster"
        THEN EksTool([status |-> "error", message |-> "ResourceNotFoundException"], ks, c0, 0)
        ELSE IF fault = "Deployment"
        THEN EksTool([status |-> "error", message |-> "ApiException(500)"], ks, c1, 1)
        ELSE IF K8sObject("Deployment", app_name) \notin ks
        THEN EksTool([status |-> "not_found", message |-> "Deployment not found"], ks, c1, 1)
        ELSE EksTool([status |-> IF available > 0 THEN "running" ELSE "pending",
                      replicas |-> 2, available |-> available, ready |-> available,
                      updated |-> 2], ks, c1, 0)

\* the agent calls delete_eks_deployment
DeleteEksDeployment ==
    /\ tmpfiles < MaxTmpFiles
    /\ \E delete_service \in BOOLEAN, delete_service_account \in BOOLEAN, fault \in K8sFaults :
        LET r == delete_eks_deployment(k8s, "blog", delete_service, delete_service_account,
                                       fault)
        IN  /\ k8s' = r.k8s
            /\ calls' = r.calls
            /\ tmpfiles' = tmpfiles + r.leaked
            /\ ret' = [tool |-> "delete_eks_deployment", app_name |-> "blog",
                       delete_service |-> delete_service,
                       delete_service_account |-> delete_service_account,
                       fault |-> fault, before |-> k8s, value |-> r.value]
    /\ UNCHANGED <<repos, stacks, prev>>
    /\ UNCHANGED <<webVars, frame, iamLogVars>>

\* the agent calls get_deployment_status
GetDeploymentStatus ==
    /\ tmpfiles < MaxTmpFiles
    /\ \E fault \in {"none", "cluster", "Deployment"}, available \in {0, 2} :
        LET r == get_deployment_status(k8s, "blog", fault, available) IN
        /\ calls' = r.calls
        /\ tmpfiles' = tmpfiles + r.leaked
        /\ ret' = [tool |-> "get_deployment_status", app_name |-> "blog",
                   fault |-> fault, before |-> k8s, value |-> r.value]
    /\ UNCHANGED <<repos, stacks, k8s, prev>>
    /\ UNCHANGED <<webVars, frame, iamLogVars>>

(***************************************************************************)
(* The cluster and the EKS agent's operations on it.                       *)
(***************************************************************************)
InitEks ==
    /\ WebIdle
    /\ NoToolCalled
    /\ repos = [n \in {} |-> 0]
    /\ stacks = [n \in {} |-> None]
    /\ k8s \in SUBSET K8sObjects

NextEks ==
    \/ DeleteEksDeployment
    \/ GetDeploymentStatus

SpecEks == InitEks /\ [][NextEks]_vars

(***************************************************************************)
(* EKS agent tools that wait in a loop: build_image_with_codebuild and     *)
(* deploy_to_eks_with_irsa.  One action starts the tool and runs it up to  *)
(* its loop; one action is one iteration of the loop, and the iteration    *)
(* that leaves the loop runs the tool to its return.                       *)
(***************************************************************************)
\* max_wait = 600
max_wait == 600

\* time.sleep(10); elapsed += 10
BuildPollSleep == 10

\* for _ in range(60)
ReadinessReads == 60

\* buildStatus values the build reports while the tool watches it
BuildStatuses == {"IN_PROGRESS", "SUCCEEDED", "FAILED", "STOPPED"}

\* status in ['SUCCEEDED', 'FAILED', 'STOPPED']
BuildEnded(status) == status \in {"SUCCEEDED", "FAILED", "STOPPED"}

Lower(status) ==
    CASE status = "IN_PROGRESS" -> "in_progress"
      [] status = "SUCCEEDED" -> "succeeded"
      [] status = "FAILED" -> "failed"
      [] status = "STOPPED" -> "stopped"

\* the return statements after the loop of build_image_with_codebuild
BuildResult(status) ==
    IF status = "SUCCEEDED"
    THEN [status |-> "success", image_uri |-> "acct.dkr.ecr/blog:latest",
          build_id |-> "build-1", message |-> "Image built and pushed successfully"]
    ELSE [status |-> "error", build_id |-> "build-1",
          message |-> <<"Build", Lower(status), "Unknown error">>]

\* the number of calls of one API in a call log
CountOf(log, api) == Len(SelectSeq(log, LAMBDA c : c = api))

\* build_image_with_codebuild up to its loop: sts, start_build
BuildImageStart ==
    /\ frame = NoTool
    /\ \E fault \in {"none", "sts", "start_build"} :
        IF fault = "none"
        THEN /\ frame' = [tool |-> "build_image_with_codebuild", elapsed |-> 0]
             /\ calls' = <<"sts.get_caller_identity", "codebuild.start_build">>
             /\ ret' = NoTool
        ELSE /\ frame' = NoTool
             /\ calls' = IF fault = "sts" THEN <<"sts.get_caller_identity">>
                         ELSE <<"sts.get_caller_identity", "codebuild.start_build">>
             /\ ret' = [tool |-> "build_image_with_codebuild", fault |-> fault,
                        elapsed |-> 0, last |-> None,
                        value |-> [status |-> "error",
                                   message |-> "Error building image: ClientError"]]
    /\ UNCHANGED <<repos, stacks, k8s, tmpfiles, prev>>
    /\ UNCHANGED <<webVars, iamLogVars>>

\* one iteration of 'while elapsed < max_wait', and what follows the loop
\* when this iteration is the last
BuildImagePoll ==
    /\ frame # NoTool /\ frame.tool = "build_image_with_codebuild"
    /\ frame.elapsed < max_wait
    /\ calls' = Append(calls, "codebuild.batch_get_builds")
    /\ \E answer \in BuildStatuses \cup {"raise"} :
        LET returned(elapsed, value) ==
                /\ frame' = NoTool
                /\ ret' = [tool |-> "build_image_with_codebuild", fault |-> "none",
                           elapsed |-> elapsed, last |-> answer, value |-> value]
        IN  IF answer = "raise"
            THEN returned(frame.elapsed,
                          [status |-> "error",
                           message |-> "Error building image: ClientError"])
            ELSE IF BuildEnded(answer)
            THEN returned(frame.elapsed, BuildResult(answer))
            ELSE IF frame.elapsed + BuildPollSleep < max_wait
            THEN /\ frame' = [frame EXCEPT !.elapsed = @ + BuildPollSleep]
                 /\ ret' = ret
            ELSE returned(frame.elapsed + BuildPollSleep, BuildResult(answer))
    /\ UNCHANGED <<repos, stacks, k8s, tmpfiles, prev>>
    /\ UNCHANGED <<webVars, iamLogVars>>

\* replicas asked for
ReplicaCounts == {1, 2}

\* no available_replicas was read
NotRead == 0 - 1

\* the call of deploy_to_eks_with_irsa that the cluster answers with an error
\* other than 409, if any: describe_cluster of get_k8s_client, or one create
DeployFaults == {"none", "cluster", "ServiceAccount", "Deployment", "Service"}

\* try: create ... except ApiException as e: if e.status == 409: patch ...
\* (an ApiException with another status is dropped)
CreateOrPatch(ks, kind, name, fault) ==
    IF fault = kind THEN ks ELSE ks \cup {K8sObject(kind, name)}

CreateOrPatchCalls(ks, kind, name, fault) ==
    IF fault # kind /\ K8sObject(kind, name) \in ks
    THEN <<"create " \o kind, "patch " \o kind>>
    ELSE <<"create " \o kind>>

DeployError(message) == [status |-> "error", message |-> "Deployment failed: " \o message]

\* the return statement of deploy_to_eks_with_irsa
DeploySuccess(app_name, replicas, endpoint) ==
    [status |-> "success", endpoint |-> endpoint, app_name |-> app_name,
     replicas |-> replicas, service_account |-> app_name \o "-sa",
     role_arn |-> "arn:role", message |-> "Deployment successful with IRSA"]

\* deploy_to_eks_with_irsa up to its loop: get_k8s_client and the three
\* creations
DeployToEksStart ==
    /\ frame = NoTool
    /\ tmpfiles < MaxTmpFiles
    /\ \E replicas \in ReplicaCounts, fault \in DeployFaults :
        IF fault = "cluster"
        THEN /\ frame' = NoTool
             /\ calls' = <<"eks.describe_cluster">>
             /\ k8s' = k8s
             /\ ret' = [tool |-> "deploy_to_eks_with_irsa", app_name |-> "blog",
                        replicas |-> replicas, fault |-> fault, before |-> k8s,
                        slept |-> 0, last |-> NotRead, service_fault |-> FALSE,
                        value |-> DeployError("ResourceNotFoundException")]
        ELSE LET k1 == CreateOrPatch(k8s, "ServiceAccount", "blog-sa", fault)
                 k2 == CreateOrPatch(k1, "Deployment", "blog", fault)
                 k3 == CreateOrPatch(k2, "Service", "blog", fault)
             IN  /\ frame' = [tool |-> "deploy_to_eks_with_irsa", app_name |-> "blog",
                              replicas |-> replicas, fault |-> fault, before |-> k8s,
                              i |-> 0]
                 /\ calls' = <<"eks.describe_cluster">>
                             \o CreateOrPatchCalls(k8s, "ServiceAccount", "blog-sa", fault)
                             \o CreateOrPatchCalls(k1, "Deployment", "blog", fault)
                             \o CreateOrPatchCalls(k2, "Service", "blog", fault)
                 /\ k8s' = k3
                 /\ ret' = NoTool
    /\ UNCHANGED <<repos, stacks, tmpfiles, prev>>
    /\ UNCHANGED <<webVars, iamLogVars>>

\* one iteration of 'for _ in range(60)', and what follows the loop when
\* this iteration is the last; available is the available_replicas read (0
\* for none), ingress the load balancer's host name (None before it has one)
DeployToEksPoll ==
    /\ frame # NoTool /\ frame.tool = "deploy_to_eks_with_irsa"
    /\ frame.i < ReadinessReads
    /\ \E available \in 0..frame.replicas, ingress \in {None, "lb.example.com"},
          service_fault \in BOOLEAN :
        LET returned(slept, last, value, issued, leaked) ==
                /\ frame' = NoTool
                /\ calls' = calls \o issued
                /\ tmpfiles' = tmpfiles + leaked
                /\ ret' = [tool |-> "deploy_to_eks_with_irsa",
                           app_name |-> frame.app_name, replicas |-> frame.replicas,
                           fault |-> frame.fault, before |-> frame.before,
                           slept |-> slept, last |-> last,
                           service_fault |-> service_fault, value |-> value]
            finished(slept) ==
                IF service_fault \/ K8sObject("Service", frame.app_name) \notin k8s
                THEN returned(slept, available, DeployError("ApiException"),
                              <<"read_namespaced_deployment_status",
                                "read_namespaced_service">>, 1)
                ELSE returned(slept, available,
                              DeploySuccess(frame.app_name, frame.replicas,
                                            IF ingress = None THEN None
                                            ELSE "http://" \o ingress),
                              <<"read_namespaced_deployment_status",
                                "read_namespaced_service">>, 0)
        IN  IF K8sObject("Deployment", frame.app_name) \notin k8s
            THEN returned(frame.i, NotRead, DeployError("ApiException(404)"),
                          <<"read_namespaced_deployment_status">>, 1)
            ELSE IF available = frame.replicas
            THEN finished(frame.i)
            ELSE IF frame.i + 1 < ReadinessReads
            THEN /\ frame' = [frame EXCEPT !.i = @ + 1]
                 /\ calls' = Append(calls, "read_namespaced_deployment_status")
                 /\ UNCHANGED <<tmpfiles, ret>>
            ELSE finished(frame.i + 1)
    /\ UNCHANGED <<repos, stacks, k8s, prev>>
    /\ UNCHANGED <<webVars, iamLogVars>>

InitWait ==
    /\ WebIdle
    /\ NoToolCalled
    /\ repos = [n \in {} |-> 0]
    /\ stacks = [n \in {} |-> None]
    /\ k8s \in SUBSET K8sObjects

NextWait ==
    \/ BuildImageStart
    \/ BuildImagePoll
    \/ DeployToEksStart
    \/ DeployToEksPoll

SpecWait == InitWait /\ [][NextWait]_vars

(***************************************************************************)
(* EKS agent tool create_irsa_role and the IAM roles it writes.            *)
(***************************************************************************)
\* trust_policy: the federated principal and the subject it is scoped to
TrustPolicy(oidc_id, app_name) ==
    [Federated |-> "oidc-provider/" \o oidc_id,
     sub |-> "system:serviceaccount:default:" \o app_name \o "-sa",
     aud |-> "sts.amazonaws.com"]

\* permissions_policy: the bucket and the table the role may use
PermissionsPolicy(s3_bucket, dynamodb_table) ==
    [s3 |-> "arn:aws:s3:::" \o s3_bucket, dynamodb |-> "table/" \o dynamodb_table]

\* a create-or-update that fails when the role exists already
EnsureRoleCreateOnly(rs, role_name, trust_policy, fault) ==
    IF fault = "create_role" \/ role_name \in DOMAIN rs
    THEN [ok |-> FALSE, roles |-> rs, calls |-> <<"iam.create_role">>]
    ELSE [ok |-> TRUE, role_created |-> TRUE, calls |-> <<"iam.create_role">>,
          roles |-> rs @@ (role_name :> [trust |-> trust_policy, permissions |-> EmptyDict])]

\* "Create or update role": create_role, and on EntityAlreadyExistsException
\* update_assume_role_policy
EnsureRole(rs, role_name, trust_policy, fault) ==
    IF fault = "create_role"
    THEN [ok |-> FALSE, roles |-> rs, calls |-> <<"iam.create_role">>]
    ELSE IF role_name \notin DOMAIN rs
    THEN [ok |-> TRUE, role_created |-> TRUE, calls |-> <<"iam.create_role">>,
          roles |-> rs @@ (role_name :> [trust |-> trust_policy, permissions |-> EmptyDict])]
    ELSE IF fault = "update_assume_role_policy"
    THEN [ok |-> FALSE, roles |-> rs,
          calls |-> <<"iam.create_role", "iam.update_assume_role_policy">>]
    ELSE [ok |-> TRUE, role_created |-> FALSE,
          calls |-> <<"iam.create_role", "iam.update_assume_role_policy">>,
          roles |-> [rs EXCEPT ![role_name].trust = trust_policy]]

\* create_irsa_role(cluster_name, app_name, region, s3_bucket,
\* dynamodb_table), given the OIDC id of the cluster and the call that fails
\* for a reason of the provider's
create_irsa_role(rs, app_name, s3_bucket, dynamodb_table, oidc_id, fault) ==
    LET role_name == app_name \o "-irsa-role"
        c0 == <<"sts.get_caller_identity">>
        c1 == Append(c0, "eks.describe_cluster")
        ensured == EnsureRole(rs, role_name, TrustPolicy(oidc_id, app_name), fault)
        c2 == c1 \o ensured.calls
        c3 == Append(c2, "iam.put_role_policy")
        error == [status |-> "error", message |-> "Error creating IRSA role: ClientError"]
    IN  IF fault = "sts" THEN [value |-> error, roles |-> rs, calls |-> c0]
        ELSE IF fault = "describe_cluster" THEN [value |-> error, roles |-> rs, calls |-> c1]
        ELSE IF ~ensured.ok THEN [value |-> error, roles |-> ensured.roles, calls |-> c2]
        ELSE IF fault = "put_role_policy"
        THEN [value |-> error, roles |-> ensured.roles, calls |-> c3]
        ELSE [value |-> [status |-> IF ensured.role_created THEN "created" ELSE "updated",
                         role_name |-> role_name,
                         role_arn |-> "arn:aws:iam::acct:role/" \o role_name,
                         service_account_name |-> app_name \o "-sa",
                         s3_bucket |-> s3_bucket, dynamodb_table |-> dynamodb_table],
              roles |-> [ensured.roles EXCEPT ![role_name].permissions =
                                PermissionsPolicy(s3_bucket, dynamodb_table)],
              calls |-> c3]

\* the agent calls create_irsa_role
CreateIrsaRole ==
    /\ \E app_name \in {"blog", "shop"}, s3_bucket \in {"bucket-a", "bucket-b"},
          fault \in {"none", "sts", "describe_cluster", "create_role",
                     "update_assume_role_policy", "put_role_policy"} :
        LET r == create_irsa_role(roles, app_name, s3_bucket, "table", "OIDC1", fault) IN
        /\ roles' = r.roles
        /\ calls' = r.calls
        /\ prev' = ret
        /\ ret' = [tool |-> "create_irsa_role", app_name |-> app_name,
                   s3_bucket |-> s3_bucket, fault |-> fault, before |-> roles,
                   value |-> r.value]
    /\ UNCHANGED <<repos, stacks, k8s, tmpfiles, frame, operation_logs, logThreads, logged>>
    /\ UNCHANGED webVars

InitIam ==
    /\ WebIdle
    /\ NoToolCalled
    /\ repos = [n \in {} |-> 0]
    /\ stacks = [n \in {} |-> None]
    /\ k8s = {}

SpecIam == InitIam /\ [][CreateIrsaRole]_vars

(***************************************************************************)
(* The operation log of the web UI.  operation_logs maps an operation id   *)
(* to the list of its entries; the request threads of the server call      *)
(* log_message and get_logs concurrently, and a thread can be preempted    *)
(* between any two statements.  logged is the history of the entries       *)
(* appended for each id.                                                   *)
(***************************************************************************)
MaxLogCalls == 3

OperationIds == {"op-1", "op-2"}

\* the number of log_message calls begun so far
LogCalls ==
    LET RECURSIVE Total(_)
        Total(S) == IF S = {} THEN 0
                    ELSE LET id == CHOOSE x \in S : TRUE
                         IN  Len(logged[id]) + Total(S \ {id})
    IN  Total(DOMAIN logged) + Cardinality({t \in DOMAIN logThreads : logThreads[t].pc # "idle"})

\* thread t enters log_message(operation_id, message) and evaluates
\* operation_id not in operation_logs
LogCheck(t) ==
    /\ logThreads[t].pc = "idle"
    /\ LogCalls < MaxLogCalls
    /\ \E operation_id \in OperationIds, message \in {"m1", "m2"} :
        logThreads' = [logThreads EXCEPT ![t] =
            [pc |-> IF operation_id \notin DOMAIN operation_logs THEN "init" ELSE "append",
             operation_id |-> operation_id, message |-> message]]
    /\ UNCHANGED <<operation_logs, logged>>
    /\ UNCHANGED <<repos, stacks, k8s, tmpfiles, ret, calls, prev, frame, roles>>
    /\ UNCHANGED webVars

\* operation_logs[operation_id] = []
LogInit(t) ==
    /\ logThreads[t].pc = "init"
    /\ operation_logs' = [id \in DOMAIN operation_logs \cup {logThreads[t].operation_id} |->
            IF id = logThreads[t].operation_id THEN <<>> ELSE operation_logs[id]]
    /\ logThreads' = [logThreads EXCEPT ![t].pc = "append"]
    /\ UNCHANGED logged
    /\ UNCHANGED <<repos, stacks, k8s, tmpfiles, ret, calls, prev, frame, roles>>
    /\ UNCHANGED webVars

\* operation_logs[operation_id].append({...}); the timestamp is the number of
\* entries appended before this one
LogAppend(t) ==
    LET id == logThreads[t].operation_id
        entry == [timestamp |-> LogCalls - Cardinality({u \in DOMAIN logThreads :
                                                  logThreads[u].pc # "idle"}),
                  level |-> "info", message |-> logThreads[t].message]
    IN  /\ logThreads[t].pc = "append"
        /\ operation_logs' = [operation_logs EXCEPT ![id] = Append(@, entry)]
        /\ logged' = [i \in DOMAIN logged \cup {id} |->
                IF i = id THEN Append(Get(logged, id, <<>>), entry) ELSE logged[i]]
        /\ logThreads' = [logThreads EXCEPT ![t] = [pc |-> "idle"]]
        /\ UNCHANGED <<repos, stacks, k8s, tmpfiles, ret, calls, prev, frame, roles>>
        /\ UNCHANGED webVars

\* GET /api/logs/<operation_id>
GetLogs ==
    /\ \E operation_id \in OperationIds :
        ret' = [tool |-> "get_logs", operation_id |-> operation_id,
                logs |-> Get(operation_logs, operation_id, <<>>)]
    /\ UNCHANGED <<operation_logs, logThreads, logged>>
    /\ UNCHANGED <<repos, stacks, k8s, tmpfiles, calls, prev, frame, roles>>
    /\ UNCHANGED webVars

InitLog ==
    /\ WebIdle
    /\ NoToolCalled
    /\ repos = [n \in {} |-> 0]
    /\ stacks = [n \in {} |-> None]
    /\ k8s = {}

NextLog ==
    \/ \E t \in DOMAIN logThreads : LogCheck(t)
    \/ \E t \in DOMAIN logThreads : LogInit(t)
    \/ \E t \in DOMAIN logThreads : LogAppend(t)
    \/ GetLogs

SpecLog == InitLog /\ [][NextLog]_vars

(***************************************************************************)
(* Lambda handler handle_deploy_ecs_express_service.                       *)
(***************************************************************************)
\* request bodies of /tools/deploy_ecs_express_service; environment_vars is
\* absent or JSON null
DeployRequests ==
    {a @@ b @@ c @@ d @@ e :
        a \in {EmptyDict, [service_name |-> "blog"]},
        b \in {EmptyDict, [image_uri |-> "image"]},
        c \in {EmptyDict, [vpc_id |-> "vpc-1"]},
        d \in {EmptyDict, [subnet_ids |-> <<"subnet-1">>]},
        e \in {EmptyDict, [environment_vars |-> [json_type |-> "null"]]}}

\* what the services the handler calls answer: whether sts answers, which
\* VPC the region has (a default one, only others, none), which subnets the
\* VPC has (public ones, only others, none), whether the managed
\* create_express_gateway_service call succeeds and whether CloudFormation
\* serves create_stack; an answer the handler does not ask for is not varied
DeployAnswers(request_data) ==
    IF Get(request_data, "service_name", None) = None
       \/ Get(request_data, "image_uri", None) = None
    THEN [sts : {TRUE}, vpc : {"default"}, subnets : {"public"}, express : {TRUE},
          create_stack : {TRUE}]
    ELSE [sts : BOOLEAN,
          vpc : IF "vpc_id" \in DOMAIN request_data THEN {"default"}
                ELSE {"default", "first", "none"},
          subnets : IF "subnet_ids" \in DOMAIN request_data THEN {"public"}
                    ELSE {"public", "any", "none"},
          express : BOOLEAN, create_stack : BOOLEAN]

\* stack_name = f"{service_name}-alb-stack", confused with the agent's naming
FallbackStackNameOfAgent(service_name) == "ecs-express-" \o service_name

FallbackStackName(service_name) == service_name \o "-alb-stack"

LambdaStack(resp, ss, issued) == [response |-> resp, stacks |-> ss, calls |-> issued]

Api(name) == [api |-> name]

\* VPC discovery: the calls it makes and the vpc_id it ends with
DiscoverVpc(request_data, a) ==
    IF ~Falsy(Get(request_data, "vpc_id", None))
    THEN [calls |-> <<>>, vpc_id |-> request_data.vpc_id]
    ELSE IF a.vpc = "default"
    THEN [calls |-> <<Api("describe_vpcs")>>, vpc_id |-> "vpc-default"]
    ELSE IF a.vpc = "first"
    THEN [calls |-> <<Api("describe_vpcs"), Api("describe_vpcs")>>, vpc_id |-> "vpc-first"]
    ELSE [calls |-> <<Api("describe_vpcs"), Api("describe_vpcs")>>, vpc_id |-> None]

\* subnet discovery: the calls it makes and the subnet_ids it ends with
DiscoverSubnets(request_data, a) ==
    IF Get(request_data, "subnet_ids", <<>>) # <<>>
    THEN [calls |-> <<>>, subnet_ids |-> request_data.subnet_ids]
    ELSE IF a.subnets = "public"
    THEN [calls |-> <<Api("describe_subnets")>>, subnet_ids |-> <<"subnet-public">>]
    ELSE [calls |-> <<Api("describe_subnets"), Api("describe_subnets")>>,
          subnet_ids |-> IF a.subnets = "any" THEN <<"subnet-any">> ELSE <<>>]

\* handle_deploy_ecs_express_service(request_data)
handle_deploy_ecs_express_service(ss, request_data, a) ==
    LET service_name == Get(request_data, "service_name", None)
        image_uri == Get(request_data, "image_uri", None)
        env_vars == Get(request_data, "environment_vars", EmptyDict)
        failed(e) == create_response(500, [error |-> "Failed to deploy service: " \o e])
        c1 == <<Api("get_caller_identity")>>
        vpc == DiscoverVpc(request_data, a)
        c2 == c1 \o vpc.calls
        subnets == DiscoverSubnets(request_data, a)
        c3 == c2 \o subnets.calls
        c4 == Append(c3, Api("create_express_gateway_service") @@ [ok |-> a.express])
        stack_name == FallbackStackName(service_name)
        created == CfnCreateStack(ss, stack_name, IF a.create_stack THEN "none" ELSE "create_stack")
        fallback(issued) ==
            IF ~IsDict(env_vars)
            THEN LambdaStack(failed("AttributeError"), ss, issued)
            ELSE LET c5 == Append(issued, [api |-> "create_stack", StackName |-> stack_name,
                                            ok |-> created.ok])
                 IN  IF ~created.ok THEN LambdaStack(failed(created.error), ss, c5)
                     ELSE LambdaStack(create_response(200,
                              [status |-> "success", deployment_status |-> "in_progress",
                               stack_name |-> stack_name, service_name |-> service_name,
                               container_port |-> 3000, vpc_id |-> vpc.vpc_id,
                               subnet_ids |-> subnets.subnet_ids,
                               message |-> "ECS service deployment started"]),
                              created.stacks, c5)
    IN  IF Falsy(service_name) \/ Falsy(image_uri)
        THEN LambdaStack(create_response(400,
                 [error |-> "service_name and image_uri are required"]), ss, <<>>)
        ELSE IF ~a.sts THEN LambdaStack(failed("AccessDenied"), ss, c1)
        ELSE IF vpc.vpc_id = None
        THEN LambdaStack(create_response(400, [error |-> "No VPC found in region"]), ss, c2)
        ELSE IF subnets.subnet_ids = <<>>
        THEN LambdaStack(create_response(400, [error |-> "No subnets found in VPC"]), ss, c3)
        ELSE IF ~IsDict(env_vars) THEN fallback(c3)
        ELSE IF a.express
        THEN LambdaStack(create_response(200,
                 [status |-> "success", service_arn |-> "arn:aws:ecs:service/" \o service_name,
                  service_name |-> service_name, container_port |-> 3000,
                  vpc_id |-> vpc.vpc_id, subnet_ids |-> subnets.subnet_ids,
                  message |-> "Express Gateway service created successfully"]), ss, c4)
        ELSE fallback(c4)

\* a POST to /tools/deploy_ecs_express_service
LambdaDeploy ==
    /\ \E request_data \in DeployRequests :
       \E a \in DeployAnswers(request_data) :
        LET r == handle_deploy_ecs_express_service(stacks, request_data, a) IN
        /\ stacks' = r.stacks
        /\ calls' = r.calls
        /\ ret' = [tool |-> "handle_deploy_ecs_express_service",
                   request_data |-> request_data, before |-> stacks,
                   response |-> r.response]
    /\ UNCHANGED <<repos, k8s, tmpfiles, prev>>
    /\ UNCHANGED <<webVars, frame, iamLogVars>>

(***************************************************************************)
(* The REST deploy handler and the stacks of its fallback.                 *)
(***************************************************************************)
InitLambda ==
    /\ WebIdle
    /\ NoToolCalled
    /\ repos = [n \in {} |-> 0]
    /\ stacks \in UNION {[S -> StackDescriptors] : S \in SUBSET {"blog-alb-stack"}}
    /\ k8s = {}

NextLambda == LambdaDeploy

SpecLambda == InitLambda /\ [][NextLambda]_vars

(***************************************************************************)
(* Properties of the command router and of the chat workflows.             *)
(***************************************************************************)
\* every oracle call of the routing in progress failed with a throttling-class error
AllThrottling ==
    /\ oracleLog # <<>>
    /\ \A i \in 1..Len(oracleLog) : oracleLog[i] = "throttling"

\* the last oracle call of the routing answered with a text
LastAnswerIsText == oracleLog # <<>> /\ oracleLog[Len(oracleLog)] = "text"

\* C1: when the oracle answers every call with a throttling-class failure,
\* each router makes exactly 5 oracle calls: it has not returned before the
\* fifth, and after the fifth it returns a decision whose operation
\* (tool_name for EKS) is 'error'.
C1_ThrottledRouterMakesFiveCalls ==
    AllThrottling =>
        /\ Len(oracleLog) <= 5
        /\ pc \in {"route", "routed"}
        /\ pc = "route" => Len(oracleLog) < 5 /\ attempt = Len(oracleLog)
        /\ pc = "routed" =>
            /\ Len(oracleLog) = 5
            /\ IsDict(routing)
            /\ Get(routing, OpKey(handler), None) = "error"

C1_Witness ==
    /\ pc = "routed"
    /\ handler = "eks_chat"
    /\ AllThrottling
    /\ Len(oracleLog) = 5
    /\ routing.tool_name = "error"

\* the text, code fence stripped, is not one JSON document
NotOneJsonDocument(text) ==
    ~(Len(StripFence(text)) = 1 /\ StripFence(text)[1] \in JsonTexts)

\* the text is one JSON document that is no object with an 'operation' key
LacksOperation(text) ==
    /\ ~NotOneJsonDocument(text)
    /\ \/ ~IsDict(JsonValue(StripFence(text)[1]))
       \/ "operation" \notin DOMAIN JsonValue(StripFence(text)[1])

\* C2 (as stated): for every malformed oracle output, text that is not JSON
\* or JSON that lacks the required key 'operation', llm_route_ecs_command
\* returns a decision with operation 'error' and a non-empty rationale.
C2_MalformedOutputRoutesToError ==
    ( /\ pc = "routed"
      /\ handler = "ecs_chat"
      /\ LastAnswerIsText
      /\ NotOneJsonDocument(content) \/ LacksOperation(content) )
    => /\ IsDict(routing)
       /\ Get(routing, "operation", None) = "error"
       /\ Get(routing, "reasoning", "") # ""

\* the operations of a RoutingDecision
Operations == {"deploy", "list", "status", "delete", "error"}

\* C3 (as stated): for every oracle response, the operation of the decision
\* llm_route_ecs_command returns is one of deploy, list, status, delete,
\* error.
C3_RouterOperationIsEnumerated ==
    (pc = "routed" /\ handler = "ecs_chat")
    => /\ IsDict(routing)
       /\ Get(routing, "operation", None) \in Operations

\* the messages build_and_push_docker_image fails with
BuildFailureMessages == {"AccessDeniedException", "ECR login failed", "Docker login failed",
                         "Docker build failed", "CalledProcessError", "Docker push failed"}

BuildFailureLines == {"Build failed: " \o m : m \in BuildFailureMessages}

RegistryLines == {"Created ECR repository", "ECR repository already exists"}

\* step i of the request is a build/push that failed
BuildFailedAt(i) ==
    /\ steps[i].call = "build_and_push_docker_image"
    /\ steps[i].outcome # "success"

\* some line of the report is in S
Reports(report, S) == \E k \in 1..Len(report) : report[k] \in S

PipelineCalls == {"ecr.create_repository", "invoke_mcp_tool(setup_oidc_provider)",
                  "invoke_mcp_tool(create_irsa_role)", "build_and_push_docker_image",
                  "invoke_strands_agent(deploy)", "invoke_mcp_tool(deploy_to_eks_with_irsa)"}

\* a step that did not do its work: an error status, an exception, or an
\* agent call answered without content or with an HTTP error
ErrorOutcomes == {"error", "raise", "no_content", "http_error"}

\* the heading a chat handler writes for a pipeline step
StepHeading(h, call) ==
    CASE call = "ecr.create_repository" -> "Step 1: Create ECR Repository"
      [] call = "invoke_mcp_tool(setup_oidc_provider)" -> "Step 1: Setup OIDC Provider"
      [] call = "invoke_mcp_tool(create_irsa_role)" -> "Step 2: Create IRSA Role"
      [] call = "build_and_push_docker_image" ->
            IF h = "ecs_chat" THEN "Step 2: Build and Push Docker Image"
            ELSE "Step 3: Build and Push Docker Image"
      [] call = "invoke_strands_agent(deploy)" -> "Step 3: Deploy to ECS Express Mode"
      [] call = "invoke_mcp_tool(deploy_to_eks_with_irsa)" -> "Step 4: Deploy to EKS"

\* C5 (as stated): as soon as a pipeline step yields an error outcome no
\* later step is executed, and the response reports the steps completed
\* before the error.
C5_ErrorShortCircuitsPipeline ==
    \A i \in 1..Len(steps) :
        (steps[i].call \in PipelineCalls /\ steps[i].outcome \in ErrorOutcomes) =>
            /\ i = Len(steps)
            /\ pc = "done"
            /\ response.status = "error"
            /\ \A j \in 1..(i - 1) :
                /\ "result" \in DOMAIN response
                /\ Reports(response.result, {StepHeading(handler, steps[j].call)})

(***************************************************************************)
(* Properties of the operations that ensure a repository.                  *)
(***************************************************************************)
\* the last two tool calls are create_ecr_repository with the same name, the
\* first one started without a repository of that name, and the registry
\* rejected neither for a reason of its own
CalledTwiceFromAbsent ==
    /\ "tool" \in DOMAIN prev /\ prev.tool = "create_ecr_repository"
    /\ "tool" \in DOMAIN ret /\ ret.tool = "create_ecr_repository"
    /\ ret.app_name = prev.app_name
    /\ prev.before[prev.app_name] = 0
    /\ prev.fault = "none"
    /\ ret.fault = "none"

TargetStack(call) ==
    IF call.stack_name # None THEN call.stack_name
    ELSE "ecs-express-" \o call.service_name

\* the last tool call is delete_ecs_service for a stack that did not exist,
\* and the provider answered the call
DeletedMissingStack ==
    /\ "tool" \in DOMAIN ret /\ ret.tool = "delete_ecs_service"
    /\ ret.stack_name # None \/ ret.service_name # None
    /\ TargetStack(ret) \notin DOMAIN ret.before
    /\ ret.fault = "none"

\* C7: delete_ecs_service called for a service or stack name whose stack
\* does not exist returns status 'not_found', issues no delete_stack call
\* and leaves the stacks as they were, so that a repeated call finds the
\* same state and answers the same.
C7_DeleteMissingStackIsNotFound ==
    DeletedMissingStack =>
        /\ ret.value.status = "not_found"
        /\ ret.value.stack_name = TargetStack(ret)
        /\ \A i \in 1..Len(calls) : calls[i].api # "delete_stack"
        /\ stacks = ret.before
        /\ TargetStack(ret) \notin DOMAIN stacks

C7_Witness ==
    /\ DeletedMissingStack
    /\ ret.service_name = "blog"
    /\ ret.stack_name = None
    /\ "other-stack" \in DOMAIN stacks
    /\ calls = <<[api |-> "describe_stacks", StackName |-> "ecs-express-blog"]>>

\* the last call is a status request for a named stack that the provider
\* answered
StatusChecked ==
    /\ "tool" \in DOMAIN ret /\ ret.tool = "get_stack_status"
    /\ ret.stack_name # None
    /\ ret.fault = "none"

\* C10: check_stack_status returns status 'NOT_FOUND' for every stack name
\* that does not exist at the provider, and for every stack whose status is
\* CREATE_COMPLETE or UPDATE_COMPLETE it returns that status with every
\* declared output key and its value (the endpoint among them) and without
\* failure events.
C10_StatusOfMissingAndCompletedStacks ==
    StatusChecked =>
        /\ ret.response.status = "success"
        /\ ret.stack_name \notin DOMAIN ret.before =>
            ret.response.result = [status |-> "NOT_FOUND", stack_name |-> ret.stack_name]
        /\ ( /\ ret.stack_name \in DOMAIN ret.before
             /\ ret.before[ret.stack_name].StackStatus \in {"CREATE_COMPLETE", "UPDATE_COMPLETE"} )
           => LET stack == ret.before[ret.stack_name]
                  result == ret.response.result
              IN  /\ result.status = stack.StackStatus
                  /\ "failed_events" \notin DOMAIN result
                  /\ DOMAIN result.outputs =
                        {stack.Outputs[i].OutputKey : i \in 1..Len(stack.Outputs)}
                  /\ \A i \in 1..Len(stack.Outputs) :
                        result.outputs[stack.Outputs[i].OutputKey] = stack.Outputs[i].OutputValue

C10_Witness ==
    /\ StatusChecked
    /\ ret.stack_name \in DOMAIN ret.before
    /\ ret.before[ret.stack_name].StackStatus = "UPDATE_COMPLETE"
    /\ ret.response.result.outputs = [ServiceArn |-> "arn:svc", Endpoint |-> "svc.example.com"]

(***************************************************************************)
(* Properties of the EKS agent's delete.                                   *)
(***************************************************************************)
\* the last tool call is delete_eks_deployment for an app whose Deployment
\* did not exist, and the provider answered every call
DeletedMissingDeployment ==
    /\ "tool" \in DOMAIN ret /\ ret.tool = "delete_eks_deployment"
    /\ K8sObject("Deployment", ret.app_name) \notin ret.before
    /\ ret.fault = "none"

\* What delete_eks_deployment answers for an app whose Deployment does not
\* exist: status 'success'; the 404 is noted as the entry
\* 'Deployment: <app> (not found)' of deleted_resources and the tool goes on
\* to delete the Service and the ServiceAccount it was asked to delete.
C8_DeleteMissingDeploymentSucceeds ==
    DeletedMissingDeployment =>
        /\ ret.value.status = "success"
        /\ ret.value.deleted_resources[1] = "Deployment: " \o ret.app_name \o " (not found)"
        /\ ret.delete_service => K8sObject("Service", ret.app_name) \notin k8s
        /\ ret.delete_service_account =>
                K8sObject("ServiceAccount", ret.app_name \o "-sa") \notin k8s
        /\ k8s \subseteq ret.before

C8_Witness ==
    /\ DeletedMissingDeployment
    /\ ret.before = {K8sObject("Service", "blog")}
    /\ ret.delete_service
    /\ ret.value.deleted_resources[2] = "Service: blog"
    /\ k8s = {}

\* C8: delete_eks_deployment called for an app whose Deployment does not
\* exist returns status 'not_found', not 'success' and not 'error'.
C8_DeleteMissingDeploymentIsNotFound ==
    DeletedMissingDeployment => ret.value.status = "not_found"

(***************************************************************************)
(* Properties of the REST deploy handler.                                  *)
(***************************************************************************)
LastIsLambdaDeploy ==
    "tool" \in DOMAIN ret /\ ret.tool = "handle_deploy_ecs_express_service"

\* the handler issued the managed call and it failed / succeeded
ManagedCallFailed ==
    /\ LastIsLambdaDeploy
    /\ \E i \in 1..Len(calls) : calls[i].api = "create_express_gateway_service" /\ ~calls[i].ok

ManagedCallSucceeded ==
    /\ LastIsLambdaDeploy
    /\ \E i \in 1..Len(calls) : calls[i].api = "create_express_gateway_service" /\ calls[i].ok

\* the positions of the create_stack calls of the last handler run
CreateStackCalls == {i \in 1..Len(calls) : calls[i].api = "create_stack"}

DescribeCalls == {i \in 1..Len(calls) : calls[i].api = "describe_stacks"}

\* C9: whenever the managed create_express_gateway_service call fails, the
\* handler issues exactly one create_stack, for '<service_name>-alb-stack',
\* and never describes the stack.  If CloudFormation accepts the stack the
\* handler returns 200 with deployment_status 'in_progress' while the stack
\* is still CREATE_IN_PROGRESS; if CloudFormation rejects it (a stack of
\* that name exists already, or a provider error) the handler returns 500
\* and no stack is created.  Whenever the managed call succeeds, no
\* create_stack is issued and the stacks are left as they were.
C9_FallbackCreatesOneStack ==
    /\ ManagedCallFailed =>
        LET name == ret.request_data.service_name \o "-alb-stack"
            body == ret.response.body.json_of
        IN  /\ Cardinality(CreateStackCalls) = 1
            /\ \A i \in CreateStackCalls : calls[i].StackName = name
            /\ DescribeCalls = {}
            /\ name \in DOMAIN ret.before =>
                /\ ret.response.statusCode = 500
                /\ stacks = ret.before
            /\ ret.response.statusCode \in {200, 500}
            /\ ret.response.statusCode = 200 =>
                /\ body.deployment_status = "in_progress"
                /\ body.stack_name = name
                /\ name \notin DOMAIN ret.before
                /\ stacks[name].StackStatus = "CREATE_IN_PROGRESS"
            /\ ret.response.statusCode = 500 => stacks = ret.before
    /\ ManagedCallSucceeded =>
        /\ CreateStackCalls = {}
        /\ stacks = ret.before
        /\ ret.response.statusCode = 200
        /\ "deployment_status" \notin DOMAIN ret.response.body.json_of

C9_Witness ==
    /\ ManagedCallFailed
    /\ "blog-alb-stack" \in DOMAIN ret.before
    /\ ret.response.statusCode = 500
    /\ Cardinality(CreateStackCalls) = 1

\* C9 (as stated): whenever the managed call fails, exactly one create_stack
\* for '<service_name>-alb-stack' is issued and the handler returns 200 with
\* deployment_status 'in_progress'; whenever it succeeds, no stack is
\* created.
C9_FallbackAlwaysReturnsInProgress ==
    /\ ManagedCallFailed =>
        /\ Cardinality(CreateStackCalls) = 1
        /\ \A i \in CreateStackCalls :
              calls[i].StackName = ret.request_data.service_name \o "-alb-stack"
        /\ ret.response.statusCode = 200
        /\ Get(ret.response.body.json_of, "deployment_status", None) = "in_progress"
    /\ ManagedCallSucceeded => CreateStackCalls = {} /\ stacks = ret.before

(***************************************************************************)
(* Properties of the EKS agent's waiting loops.                            *)
(***************************************************************************)
BuildReads == CountOf(calls, "codebuild.batch_get_builds")

\* build_image_with_codebuild has returned after its loop ran out of time
\* with the build still in progress
BuildWaitExhausted ==
    /\ "tool" \in DOMAIN ret /\ ret.tool = "build_image_with_codebuild"
    /\ ret.fault = "none"
    /\ ret.last = "IN_PROGRESS"

\* The build-wait loop reads the status at most 60 times, 10 s apart.
BuildWaitIsBounded ==
    /\ BuildReads * BuildPollSleep <= max_wait
    /\ BuildReads <= 60
    /\ (frame # NoTool /\ frame.tool = "build_image_with_codebuild") =>
            frame.elapsed = BuildReads * BuildPollSleep

\* C11: the build-wait loop of build_image_with_codebuild reads the status
\* at most 60 times, 10 s apart, and when the bound is exhausted with the
\* build not in a terminal state the tool reports it as still pending, not
\* as an error.
C11_BuildWaitExhaustedIsPending ==
    /\ BuildWaitIsBounded
    /\ BuildWaitExhausted => ret.value.status \notin {"error", "success"}

DeployReads == CountOf(calls, "read_namespaced_deployment_status")

\* deploy_to_eks_with_irsa has returned after all its readiness reads found
\* fewer available replicas than asked for, and the calls that followed the
\* loop were answered
ReadinessExhausted ==
    /\ "tool" \in DOMAIN ret /\ ret.tool = "deploy_to_eks_with_irsa"
    /\ ret.fault # "cluster"
    /\ ret.last # NotRead /\ ret.last # ret.replicas
    /\ ret.slept = ReadinessReads
    /\ ~ret.service_fault
    /\ K8sObject("Service", ret.app_name) \in k8s

\* C12: the readiness loop of deploy_to_eks_with_irsa reads the status at
\* most 60 times, and when the available replicas never equal the requested
\* replicas within that bound the tool reports the deployment as still
\* pending, not as an error and not as completed.
C12_ReadinessExhaustedIsPending ==
    /\ DeployReads <= ReadinessReads
    /\ ReadinessExhausted =>
        /\ ret.value.status \notin {"error", "success"}
        /\ ret.value.message # "Deployment successful with IRSA"

(***************************************************************************)
(* Properties of the tools' error boundary.                                *)
(***************************************************************************)
\* C13: every call of a public operation returns a structured result with a
\* status field, whatever failure the collaborator answers with; no
\* collaborator exception propagates to the caller.  (Stated for
\* create_ecr_repository, the ECS agent tool that ensures the registry.)
C13_NoCollaboratorExceptionEscapes ==
    ("tool" \in DOMAIN ret /\ ret.tool = "create_ecr_repository") =>
        /\ ~ret.raised
        /\ "status" \in DOMAIN ret.value

(***************************************************************************)
(* Properties of the validation of a deploy request.                       *)
(***************************************************************************)
\* ecs_chat is past its router with a deploy decision whose app name is
\* missing or empty, or whose desired_count is less than 1
InvalidDeployDispatched ==
    /\ handler = "ecs_chat"
    /\ pc \notin {"idle", "route", "routed"}
    /\ IsDict(routing)
    /\ Get(routing, "operation", None) = "deploy"
    /\ LET arguments == Get(routing, "arguments", EmptyDict)
       IN  \/ Get(arguments, "app_name", None) \in {None, ""}
           \/ Get(arguments, "desired_count", 1) < 1

\* C14: in ecs_chat a deploy decision whose app name is missing or empty, or
\* whose desired_count is less than 1, is rejected before dispatch: no
\* registry creation, no build/push and no deployment submission is
\* performed, and an error result is returned.
C14_InvalidDeployIsRejected ==
    InvalidDeployDispatched =>
        /\ steps = <<>>
        /\ pc = "done"
        /\ response.status = "error"

(***************************************************************************)
(* Properties of the router's answer to a well-formed oracle response.     *)
(***************************************************************************)
\* the JSON objects with a recognized operation key
RecognizedDocs ==
    {d \in EcsJsonTexts : /\ IsDict(JsonValue(d))
                          /\ Get(JsonValue(d), "operation", None) \in
                                {"deploy", "list", "status", "delete"}}

\* the ECS router has returned on an oracle response that is the document d,
\* bare or wrapped in a code fence of either kind
AnsweredWith(d) ==
    /\ pc = "routed" /\ handler = "ecs_chat"
    /\ LastAnswerIsText
    /\ content \in {<<d>>, <<Fence, d, Fence>>, <<FenceJson, d, Fence>>}

LastCallFailedOtherwise == oracleLog # <<>> /\ oracleLog[Len(oracleLog)] = "failure"

\* C16: when an oracle call fails with a failure that is not of the
\* throttling class, each router returns operation 'error' (tool_name
\* 'error' for EKS) at once, however many attempts remain: the router is
\* never in its loop after such a failure, it makes no further oracle call,
\* and it sleeps only after the throttled calls that came before.
C16_OtherFailureReturnsErrorAtOnce ==
    /\ pc = "route" => \A i \in 1..Len(oracleLog) : oracleLog[i] = "throttling"
    /\ (pc = "routed" /\ LastCallFailedOtherwise) =>
        /\ IsDict(routing)
        /\ Get(routing, OpKey(handler), None) = "error"
        /\ \A i \in 1..(Len(oracleLog) - 1) : oracleLog[i] = "throttling"
        /\ Len(sleeps) = Len(oracleLog) - 1

C16_Witness ==
    /\ pc = "routed"
    /\ handler = "eks_chat"
    /\ oracleLog = <<"throttling", "failure">>
    /\ sleeps = <<3>>
    /\ routing.tool_name = "error"

\* C17: under consecutive throttling failures each router backs off
\* exponentially starting at 3 seconds: it waits 3 s, 6 s, 12 s and 24 s
\* after the first four failed calls, and over a fully exhausted run (five
\* throttled calls) the delays it has waited are exactly 3, 6, 12, 24; it
\* does not wait after the fifth failure.
C17_BackoffDelays ==
    AllThrottling =>
        /\ Len(sleeps) = (IF Len(oracleLog) < 5 THEN Len(oracleLog) ELSE 4)
        /\ sleeps = SubSeq(<<3, 6, 12, 24>>, 1, Len(sleeps))
        /\ \A i \in 2..Len(sleeps) : sleeps[i] = 2 * sleeps[i - 1]
        /\ pc = "routed" => sleeps = <<3, 6, 12, 24>>

C17_Witness ==
    /\ pc = "routed"
    /\ handler = "ecs_chat"
    /\ AllThrottling
    /\ Len(oracleLog) = 5
    /\ sleeps = <<3, 6, 12, 24>>

\* C17 (as stated): over a fully exhausted run the delays waited are 3 s,
\* 6 s, 12 s, 24 s, 48 s.
C17_BackoffDelaysUpTo48 ==
    (pc = "routed" /\ AllThrottling) => sleeps = <<3, 6, 12, 24, 48>>

(***************************************************************************)
(* Properties of the order of the deployment steps.                        *)
(***************************************************************************)
\* the place of a collaborator call in the order ensure-registry (1),
\* build/push (2), ensure-identity (3), submit-deploy (4), poll-status (5);
\* 0 for a call that is no step of a deployment
PipelinePhase(call) ==
    CASE call = "ecr.create_repository" -> 1
      [] call = "build_and_push_docker_image" -> 2
      [] call \in {"invoke_mcp_tool(setup_oidc_provider)",
                   "invoke_mcp_tool(create_irsa_role)"} -> 3
      [] call \in {"invoke_strands_agent(deploy)",
                   "invoke_mcp_tool(deploy_to_eks_with_irsa)"} -> 4
      [] call \in {"time.sleep(5)", "check_stack_status"} -> 5
      [] OTHER -> 0

\* C18: in every deployment attempt of ecs_chat and of eks_chat the steps
\* that execute do so in the order ensure-registry, build/push,
\* ensure-identity, submit-deploy, poll-status: no step starts before every
\* step that precedes it in this order has finished.
C18_DeploymentStepsInOrder ==
    \A i, j \in 1..Len(steps) :
        (i < j /\ PipelinePhase(steps[i].call) > 0 /\ PipelinePhase(steps[j].call) > 0)
            => PipelinePhase(steps[i].call) <= PipelinePhase(steps[j].call)

(***************************************************************************)
(* Properties of the status reconcilers.                                   *)
(***************************************************************************)
\* the last call is an invocation of a status reconciler that reached the
\* provider
ReconcilerInvoked ==
    /\ "tool" \in DOMAIN ret
    /\ ret.tool \in {"get_stack_status", "handle_check_ecs_service_status"}
    /\ calls # <<>>

\* the stack the last invocation read, when it could read one
StackRead ==
    LET name == IF ret.tool = "get_stack_status" THEN ret.stack_name
                ELSE Get(ret.request_data, "stack_name", None)
    IN  IF name \in DOMAIN ret.before /\ ret.fault \notin {"describe_stacks", "connection"}
        THEN ret.before[name] ELSE [StackStatus |-> None, Outputs |-> <<>>]

\* C19: every invocation of a status reconciler issues a bounded number of
\* provider calls, each at most once, and never waits: check_stack_status
\* issues one describe_stacks, and one describe_stack_events besides when
\* the stack it read is neither CREATE_COMPLETE nor UPDATE_COMPLETE;
\* handle_check_ecs_service_status issues one describe_stacks, and one
\* describe_services besides when the stack is CREATE_COMPLETE and declares a
\* ServiceArn, or one describe_services alone when only a service ARN is
\* given.
C19_ReconcilerCallsAreBounded ==
    ReconcilerInvoked =>
        /\ Len(calls) \in {1, 2}
        /\ \A i, j \in 1..Len(calls) : i # j => calls[i].api # calls[j].api
        /\ ret.tool = "get_stack_status" =>
            /\ calls[1].api = "describe_stacks"
            /\ Len(calls) = 2 <=>
                    StackRead.StackStatus \notin {None, "CREATE_COMPLETE", "UPDATE_COMPLETE"}
            /\ Len(calls) = 2 => calls[2].api = "describe_stack_events"
        /\ ret.tool = "handle_check_ecs_service_status" =>
            /\ Len(calls) = 2 <=>
                    /\ StackRead.StackStatus = "CREATE_COMPLETE"
                    /\ StackRead.Outputs # <<>>
            /\ Len(calls) = 2 => calls[1].api = "describe_stacks"
                                 /\ calls[2].api = "describe_services"

C19_Witness ==
    /\ ReconcilerInvoked
    /\ ret.tool = "get_stack_status"
    /\ StackRead.StackStatus = "CREATE_IN_PROGRESS"
    /\ ret.response.result.status = "CREATE_IN_PROGRESS"
    /\ Len(calls) = 2

\* C19 (as stated): every invocation of a status reconciler issues exactly
\* one provider call, whatever the status of the stack or service it reads.
C19_ReconcilerMakesOneCall ==
    ReconcilerInvoked => Len(calls) = 1

(***************************************************************************)
(* Properties of the status read that follows a deploy submission.         *)
(***************************************************************************)
\* ecs_chat has returned from a deploy workflow whose status read was
\* answered
DeployStatusRead ==
    /\ pc = "done" /\ handler = "ecs_chat"
    /\ steps # <<>>
    /\ steps[Len(steps)].call = "check_stack_status"
    /\ steps[Len(steps)].outcome # "raise"

\* C20: after submitting a deployment, ecs_chat reads the stack status
\* exactly once, after one fixed delay, and returns without waiting for a
\* terminal state; for every status read that is neither complete nor failed
\* (a stack not yet visible included) the response contains an in-progress
\* report that names the stack to poll.
C20_StatusReadOnceAndInProgressReported ==
    /\ Cardinality({i \in 1..Len(steps) : steps[i].call = "check_stack_status"}) <= 1
    /\ Cardinality({i \in 1..Len(steps) : steps[i].call = "time.sleep(5)"}) <= 1
    /\ DeployStatusRead =>
        LET observed == steps[Len(steps)].outcome
            stack_name == StackName(ServiceName(routing.arguments.app_name))
        IN  /\ steps[Len(steps) - 1].call = "time.sleep(5)"
            /\ steps[Len(steps) - 2].call = "invoke_strands_agent(deploy)"
            /\ response.status = "success"
            /\ ( /\ ~IsComplete(observed)
                 /\ ~HasFailed(observed) /\ ~HasRollback(observed) )
               => Reports(response.result, {"Stack is being created: " \o stack_name})

(***************************************************************************)
(* Properties of create_irsa_role.                                         *)
(***************************************************************************)
\* the last two tool calls are create_irsa_role with the same arguments, the
\* first one started without the role, and IAM served both
RoleEnsuredTwice ==
    /\ "tool" \in DOMAIN prev /\ prev.tool = "create_irsa_role"
    /\ "tool" \in DOMAIN ret /\ ret.tool = "create_irsa_role"
    /\ ret.app_name = prev.app_name /\ ret.s3_bucket = prev.s3_bucket
    /\ (prev.app_name \o "-irsa-role") \notin DOMAIN prev.before
    /\ prev.fault = "none" /\ ret.fault = "none"

\* C21: create_irsa_role is an idempotent create-or-update: called twice
\* with the same arguments from a state where the role does not exist, it
\* returns 'created' then 'updated', never an error on the second call, and
\* the role's trust policy and permissions policy after the second call
\* equal those after the first.
C21_IrsaRoleCreateThenUpdate ==
    RoleEnsuredTwice =>
        LET role_name == ret.app_name \o "-irsa-role" IN
        /\ prev.value.status = "created"
        /\ ret.value.status = "updated"
        /\ ret.value.role_arn = prev.value.role_arn
        /\ role_name \in DOMAIN ret.before
        /\ roles[role_name] = ret.before[role_name]
        /\ roles[role_name].permissions = PermissionsPolicy(ret.s3_bucket, "table")
        /\ roles[role_name].trust = TrustPolicy("OIDC1", ret.app_name)
        /\ roles = ret.before

C21_Witness ==
    /\ RoleEnsuredTwice
    /\ ret.value.status = "updated"
    /\ calls = <<"sts.get_caller_identity", "eks.describe_cluster", "iam.create_role",
                 "iam.update_assume_role_policy", "iam.put_role_policy">>
    /\ roles["blog-irsa-role"].permissions = PermissionsPolicy("bucket-a", "table")

(***************************************************************************)
(* Properties of the derived stack identifier.                             *)
(***************************************************************************)
\* every provider call of the last tool call names the given stack
AddressesStack(name) ==
    /\ calls # <<>>
    /\ \A i \in 1..Len(calls) : calls[i].StackName = name

\* each ECS agent tool addresses the stack 'ecs-express-<service name>', or
\* the stack_name it was given
AddressesDerivedStack ==
    /\ ("tool" \in DOMAIN ret /\ ret.tool = "deploy_ecs_express_service") =>
            /\ AddressesStack("ecs-express-" \o ret.service_name)
            /\ AddressesStack(StackName(ret.service_name))
    /\ ("tool" \in DOMAIN ret /\ ret.tool = "delete_ecs_service" /\ calls # <<>>) =>
            AddressesStack(IF ret.stack_name # None THEN ret.stack_name
                           ELSE "ecs-express-" \o ret.service_name)
    /\ ("tool" \in DOMAIN ret /\ ret.tool = "check_service_status" /\ calls # <<>>) =>
            AddressesStack(IF ret.stack_name # None THEN ret.stack_name
                           ELSE "ecs-express-blog")

\* delete_ecs_service(s) is called right after deploy_ecs_express_service(s)
\* created a stack, and CloudFormation serves it
DeleteFollowsDeploy ==
    /\ "tool" \in DOMAIN ret /\ ret.tool = "deploy_ecs_express_service"
    /\ ret.value.status = "success"
    /\ ret'.tool = "delete_ecs_service"
    /\ ret'.service_name = ret.service_name /\ ret'.stack_name = None
    /\ ret'.fault = "none"

\* C22: for every service name s, deploy_ecs_express_service(s),
\* check_service_status given a service ARN ending in '/s',
\* delete_ecs_service(s) and the status check of ecs_chat address the same
\* stack 'ecs-express-s'; after deploy(s) followed by delete(s) the stack
\* deleted is the one that deploy created; and a stack_name given explicitly
\* takes precedence over the derived one.
C22_SameDerivedStack ==
    [][ /\ AddressesDerivedStack'
        /\ DeleteFollowsDeploy =>
            /\ ret'.value.status = "success"
            /\ ret'.value.stack_name = ret.value.stack_name
            /\ calls'[2] = [api |-> "delete_stack", StackName |-> ret.value.stack_name]
            /\ stacks'[ret.value.stack_name].StackStatus = "DELETE_IN_PROGRESS" ]_vars

C22_Witness ==
    /\ "tool" \in DOMAIN ret /\ ret.tool = "delete_ecs_service"
    /\ ret.service_name = "blog" /\ ret.stack_name = None
    /\ ret.value.status = "success"
    /\ "ecs-express-blog" \in DOMAIN ret.before
    /\ ret.before["ecs-express-blog"].StackStatus = "CREATE_IN_PROGRESS"
    /\ stacks["ecs-express-blog"].StackStatus = "DELETE_IN_PROGRESS"

(***************************************************************************)
(* Properties of the answer of /tools/build_and_push_container.            *)
(***************************************************************************)
\* C23: every 200 response of POST /tools/build_and_push_container, whether
\* or not the image already exists, contains both an 'image_uri' key and a
\* 'build_commands' key.
C23_BuildResponseHasBuildCommands ==
    ("tool" \in DOMAIN ret /\ ret.tool = "handle_build_and_push_container"
        /\ ret.response.statusCode = 200) =>
        /\ "image_uri" \in DOMAIN ret.response.body.json_of
        /\ "build_commands" \in DOMAIN ret.response.body.json_of

(***************************************************************************)
(* Properties of the operation log.                                        *)
(***************************************************************************)
\* C24: after any sequence of log_message and get_logs calls, interleaved
\* concurrent log_message calls for the same previously unseen operation id
\* included, the log of each operation id contains every entry ever logged
\* for it, in append order: no entry is lost, removed or overwritten.
C24_LogKeepsEveryEntry ==
    \A id \in DOMAIN logged :
        /\ id \in DOMAIN operation_logs
        /\ operation_logs[id] = logged[id]

(***************************************************************************)
(* Properties of a deployment whose stack failed.                          *)
(***************************************************************************)
\* C25: a deployment attempt in ecs_chat whose status read observes a stack
\* status containing FAILED or ROLLBACK ends in the failed outcome: the
\* response reports the failure of the stack, the deployment was submitted
\* once and is not resubmitted, and the status field of the result is not
\* 'success'.
C25_FailedStackIsNotSuccess ==
    ( /\ DeployStatusRead
      /\ \/ HasFailed(steps[Len(steps)].outcome)
         \/ HasRollback(steps[Len(steps)].outcome) )
    =>  /\ Reports(response.result,
                   {"Stack creation failed: " \o steps[Len(steps)].outcome})
        /\ Cardinality({i \in 1..Len(steps) :
                            steps[i].call = "invoke_strands_agent(deploy)"}) = 1
        /\ response.status # "success"

(***************************************************************************)
(* Properties of the dispatch of a decision that names nothing implemented.*)
(***************************************************************************)
\* the operations of ecs_chat and the tools of eks_chat that are implemented
Implemented(h) ==
    IF h = "ecs_chat" THEN {"deploy", "list", "delete", "status"}
    ELSE {"deploy_workflow", "list_deployments", "get_deployment_status",
          "delete_eks_deployment", "setup_oidc_provider", "create_irsa_role"}

\* a chat handler has returned on a decision that names nothing implemented
UnimplementedDispatched ==
    /\ pc = "done"
    /\ handler \in {"ecs_chat", "eks_chat"}
    /\ IsDict(routing)
    /\ Get(routing, OpKey(handler), None) \notin Implemented(handler)

\* C26: for any routing decision whose operation is not one of deploy, list,
\* delete, status (ecs_chat), or whose tool_name is not one of the implemented
\* tools (eks_chat), the dispatcher makes no cloud, agent or build call and
\* returns a result with status 'error'; the provider state is unchanged.
C26_UnimplementedIsErrorWithoutCalls ==
    UnimplementedDispatched =>
        /\ response.status = "error"
        /\ steps = <<>>
        /\ calls = <<>>
        /\ repos = [n \in {} |-> 0] /\ stacks = [n \in {} |-> None] /\ k8s = {}

C26_Witness ==
    /\ UnimplementedDispatched
    /\ handler = "eks_chat"
    /\ Get(routing, "tool_name", None) = "restart_pods"
    /\ response.status = "error"
    /\ "result" \in DOMAIN response
    /\ response.result = <<"Unknown tool">>

(***************************************************************************)
(* Properties of the creation of the three Kubernetes resources.           *)
(***************************************************************************)
\* C27: deploy_to_eks_with_irsa returns status 'success' only if each of the
\* ServiceAccount, the Deployment and the Service was created or, on a 409
\* conflict, patched; a create that fails with any other API error never
\* leads to a 'success' result.
C27_SuccessOnlyIfAllCreated ==
    ( /\ "tool" \in DOMAIN ret /\ ret.tool = "deploy_to_eks_with_irsa"
      /\ ret.value.status = "success" )
    => ret.fault \notin {"ServiceAccount", "Deployment", "Service"}

(***************************************************************************)
(* Properties of the temporary CA-certificate files.                       *)
(***************************************************************************)
\* C28: every temporary CA-certificate file created by get_k8s_client is
\* deleted before the EKS tool that created it returns, on every path, those
\* where a Kubernetes or AWS call fails included: no call leaves a temporary
\* file behind, so the number of leftover files stays at zero.
C28_NoTempFileIsLeftBehind ==
    tmpfiles = 0

(***************************************************************************)
(* Properties of the scaling target of the generated template.             *)
(***************************************************************************)
\* C29: for every desired_count >= 1 passed to deploy_ecs_express_service,
\* the generated template contains a ScalingTarget exactly when
\* desired_count > 1, and in that case MinTaskCount equals desired_count and
\* MinTaskCount <= MaxTaskCount.
C29_ScalingTargetIsConsistent ==
    ( /\ "tool" \in DOMAIN ret /\ ret.tool = "deploy_ecs_express_service"
      /\ ret.desired_count >= 1 )
    => LET Properties == calls[1].Properties IN
       /\ ("ScalingTarget" \in DOMAIN Properties) <=> (ret.desired_count > 1)
       /\ ("ScalingTarget" \in DOMAIN Properties) =>
            /\ Properties.ScalingTarget.MinTaskCount = ret.desired_count
            /\ Properties.ScalingTarget.MinTaskCount <= Properties.ScalingTarget.MaxTaskCount

(***************************************************************************)
(* Properties of the three classifiers of a stack status.                  *)
(***************************************************************************)
\* the class in which check_stack_status of the web UI places the stack
WebClass(ss, name) ==
    LET got == check_stack_status(name, CfnDescribeStacks(ss, name, "none"),
                                  [ok |-> TRUE, events |-> <<>>])
    IN  IF got.raised THEN "error"
        ELSE IF got.value.status = "NOT_FOUND" THEN "not-found"
        ELSE IF got.value.status = "ERROR" THEN "error"
        ELSE IF "outputs" \in DOMAIN got.value THEN "complete"
        ELSE IF HasFailed(got.value.status) \/ HasRollback(got.value.status) THEN "failed"
        ELSE "in-progress"

\* the class in which check_service_status of the ECS agent places the stack
AgentClass(ss, name) ==
    LET value == check_service_status(ss, None, name, "none").value
    IN  IF value.status = "error" THEN "error"
        ELSE IF "service_arn" \in DOMAIN value THEN "complete"
        ELSE IF HasFailed(value.status) \/ HasRollback(value.status) THEN "failed"
        ELSE "in-progress"

\* the class in which handle_check_ecs_service_status places the stack
LambdaClass(ss, name) ==
    LET resp == handle_check_ecs_service_status(
                    ss, [stack_name |-> name, region |-> "us-west-2"], "none", TRUE).response
        body == resp.body.json_of
    IN  IF resp.statusCode = 404 THEN "not-found"
        ELSE IF resp.statusCode # 200 THEN "error"
        ELSE IF body.deployment_status = "complete" THEN "complete"
        ELSE IF body.deployment_status = "failed" THEN "failed"
        ELSE "in-progress"

\* one of the three status classifiers was called
StatusClassifierCalled ==
    /\ "tool" \in DOMAIN ret
    /\ ret.tool \in {"get_stack_status", "check_service_status",
                     "handle_check_ecs_service_status"}

\* C30: check_stack_status of the web UI, check_service_status of the ECS
\* agent and handle_check_ecs_service_status of the Lambda agree for every
\* provider stack state: given the same stack, UPDATE_COMPLETE, rollback
\* states and a nonexistent stack included, each places it in the same class
\* among not-found, in-progress, complete (with outputs) and failed.
C30_StatusClassifiersAgree ==
    StatusClassifierCalled =>
        \A name \in StackNames \cup {"unknown-stack"} :
            /\ WebClass(stacks, name) = AgentClass(stacks, name)
            /\ WebClass(stacks, name) = LambdaClass(stacks, name)
            /\ WebClass(stacks, name) \in {"not-found", "in-progress", "complete", "failed"}

====
